---- MODULE Spec2Model ----
(***************************************************************************)
(* Model of the trip planner.                                              *)
(*                                                                         *)
(* Spec        one POST /plan request, from its arrival to its response:   *)
(*               router.post('/plan')          src/server/routes/trip.js   *)
(*                                             489-693                     *)
(*               validateORSRoutesAndDistances src/server/routes/trip.js   *)
(*                                             385-459                     *)
(* SpecStable  the validator called twice on one candidate, against an     *)
(*             oracle that repeats its answers                             *)
(* SpecPage    the trip-plan page of the client, the fields of its form,   *)
(*             its submission and its geocoding gate:                      *)
(*               src/client/src/pages/TripPlan.js 97-167, 213-358, 462-523 *)
(* SpecTrips   the stored trips: authenticateToken, POST /save,            *)
(*             GET /history, GET /trip/:tripId, trip.js 39-365, with the   *)
(*             handlers of concurrent requests and the database taking     *)
(*             their steps                                                 *)
(* SpecAuth    concurrent requests to POST /register,                      *)
(*             src/server/routes/auth.js 27-79, with the handlers and the  *)
(*             database taking their steps                                 *)
(* SpecPair    two POST /plan requests served by one process               *)
(* SpecShown   the trip-plan page with its weather, its weather buttons    *)
(*             and its saving, among French cities:                        *)
(*             TripPlan.js 71-76, 213-454, 462-523, 575-761                *)
(* SpecDash    the dashboard, the two routes it reads, its buttons, the    *)
(*             navigation bar and the router around it, the login and the  *)
(*             register page that lead back to it, the trip-history page   *)
(*             and the page of a trip, which lead to it and from it:       *)
(*             src/client/src/pages/Dashboard.jsx 53-91, 128-228,          *)
(*             src/client/src/App.js 34, 56-63, 87-104, 123-198,           *)
(*             src/client/src/components/PrivateRoute.js 24-31,            *)
(*             src/client/src/pages/Login.jsx 16-47, Register.jsx 17-47,   *)
(*             src/client/src/pages/TripHistory.js 5-43, 54-104 and its    *)
(*             later versions src/unnamed/part_001, part_002,              *)
(*             src/client/src/pages/TripView.js 71-112, 169-182, 215-217,  *)
(*             503-506                                                     *)
(* SpecWeather one POST /weather request, trip.js 718-839, with the        *)
(*             handler and the weather service taking their steps          *)
(*                                                                         *)
(* The generative model (Groq), the routing oracle (ORS), the geocoder,    *)
(* the database and the user are the environment: everything they can      *)
(* give is chosen with \E.  Each specification moves the variables of its  *)
(* own part and leaves the others as they are initially.                   *)
(*                                                                         *)
(* Data representation                                                     *)
(*   - a JS object is a record; a property the object lacks is a field the *)
(*     record lacks ("days" \notin DOMAIN tripData is tripData.days ===    *)
(*     undefined);                                                         *)
(*   - a raw model reply is a sequence of tokens: "{" , "}" , prose, and   *)
(*     one token per serialised member list of a JSON object;              *)
(*   - coordinates are named points "P1".."P3", each standing for one      *)
(*     [lat, lng] pair;                                                    *)
(*   - distances are whole metres, durations whole seconds.                *)
(***************************************************************************)
EXTENDS Integers, Sequences, FiniteSets, Bags, TLC

VARIABLES
    pc,               \* position of the handler
    request,          \* req.body: [complete, tripType]
    attempt,          \* loop variable of the retry loop (trip.js 609)
    lastRawResponse,  \* trip.js 597
    tripData,         \* trip.js 596
    foundValid,       \* trip.js 599
    orsData,          \* trip.js 600
    validation,       \* trip.js 638, the validator's return value
    vDay,             \* validator: index of the day being validated (397)
    vI,               \* validator: i of the segment loop (403)
    dayDistance,      \* validator local (398)
    dayDuration,      \* validator local (399)
    orsSegments,      \* validator local (400)
    allORSData,       \* validator local (394)
    res,              \* the HTTP response sent
    groqCalls,        \* observed: calls of groq.chat.completions.create
    orsCalls,         \* observed: calls of axios.post to the routing oracle since
                      \* the validator was last entered (0 before its first call)
    validatorCalls,   \* observed: calls of validateORSRoutesAndDistances
    parseFailures,    \* observed: replies of the model that did not parse
    groqThrows,       \* observed: calls of the model that threw
    lastModelReply,   \* observed: the content of the model's latest reply
    atAccept,         \* observed: call counts when a candidate was accepted
    orsFailure,       \* observed: how the oracle failed in the attempt that was
                      \* just rejected ("none" when it did not)
    outstanding,      \* observed: the calls of the model and of the oracle
                      \* that were issued and are not yet answered
    \* The trip-plan page of the client (src/client/src/pages/TripPlan.js)
    hpc,              \* position of handleSubmit ("form": not running)
    called,           \* the country, city, tripType and tripDate of the render
                      \* in which handleSubmit was called (TripPlan.js 213)
    country,          \* TripPlan.js 33
    city,             \* TripPlan.js 34
    error,            \* TripPlan.js 45
    loading,          \* TripPlan.js 44
    pageTripData,     \* TripPlan.js 43, the page's tripData
    submitted,        \* TripPlan.js 58-61, submittedCountry, submittedCity,
                      \* submittedTripType and submittedTripDate
    countryFlag,      \* TripPlan.js 46
    countryValidation,\* handleSubmit local (227)
    cityValidation,   \* handleSubmit local (235)
    submissions,      \* observed: submissions of the form so far
    countryAnswer,    \* observed: the geocoder's answer to the country lookup
    cityCall,         \* observed: the arguments validateCity was invoked with
    cityLookup,       \* observed: the city lookup sent to the geocoder
    cityAnswer,       \* observed: the geocoder's answer to the city lookup
    planPosts,        \* observed: POSTs of /api/trip/plan in this submission
    pageTripType,     \* TripPlan.js 35, the page's tripType
    pageTripDate,     \* TripPlan.js 36, the page's tripDate
    planBody,         \* observed: the body of the latest POST of /api/trip/plan
    weatherData,      \* TripPlan.js 64
    weatherLoading,   \* TripPlan.js 65
    weatherError,     \* TripPlan.js 66
    pendingEffect,    \* the effect of lines 71-76 that React has scheduled for
                      \* the render of a new trip and not yet run
    weatherPosts,     \* the POSTs of /api/trip/weather that are not yet answered,
                      \* as a bag: two of them may carry the same body
    saving,           \* TripPlan.js 50
    saveError,        \* TripPlan.js 51
    saveSuccess,      \* TripPlan.js 52
    tripSaved,        \* TripPlan.js 53
    savePosts,        \* the POSTs of /api/trip/save that are not yet answered
    confirmed,        \* observed: the bodies whose save the server confirmed
    inputs,           \* which inputs the user, the geocoder, the model and
                      \* the oracle give: "all", "french" or "pair"
    \* The validator called twice against an oracle that repeats its answers
    oracle,           \* the answers the oracle has given, by (start, end, profile)
    firstValidation,  \* the return value of the validator's first call
    \* The trips collection and its routes
    trips,            \* the stored trips, in the order the database stored them
    inflight,         \* the handlers of /save, /history, /trip that are at
                      \* their await, as a bag: each with its request, its
                      \* operation and what the database gave
    saves,            \* the documents POST /save has built: the clock of createdAt
    tripsReq,         \* observed: the request to /save, /history, /trip that
                      \* was answered last, and whether the database served it
    tripsRes,         \* the response to it
    \* The users collection and the requests to POST /register
    users,            \* the stored users
    reg,              \* the requests: where each is, and what it carries
    \* The dashboard of the client (src/client/src/pages/Dashboard.jsx)
    dpc,              \* position of the data fetching effect (53-91)
    storedToken,      \* localStorage 'token'
    dashRoute,        \* the route the router shows
    meReply,          \* the promise of GET /api/me (62-64)
    historyReply,     \* the promise of GET /api/trip/history (65-67)
    user,             \* Dashboard.jsx 31
    lastTrip,         \* Dashboard.jsx 32
    dashLoading,      \* Dashboard.jsx 38, the dashboard's loading
    dashError,        \* Dashboard.jsx 39, the dashboard's error
    caught,           \* observed: the reason the catch of line 77 received
    isLoggedIn,       \* App.js 34, the session as the navigation bar sees it
    appPending,       \* the effect of App.js 56-63 has not run yet
    jwtSecret,        \* process.env.JWT_SECRET of the server
    stale,            \* the requests of dashboards that have left the screen,
                      \* as a bag: the two promises and whether Promise.all
                      \* is settled
    logins,           \* submissions of the login and register forms in
                      \* flight: of the page shown (live), of pages that left
    authError,        \* Login.jsx 11, Register.jsx 12: the error of the page shown
    historyPage,      \* the trip-history page (TripHistory.js 5-7): where its
                      \* fetchTripHistory is, its request, trips, loading, error
    tripPage,         \* the page of a trip (TripView.js 73-75): where its
                      \* fetchTrip is, its request, trip, loading and error
    backEntry,        \* the entry of the history before the page of a trip
    \* A request to POST /weather (src/server/routes/trip.js 718-839)
    wpc,              \* position of the handler
    wreq,             \* req.body, and the clock read at line 737
    wres,             \* the responses sent, in order
    wcall,            \* observed: the call of the weather service made
    \* Two requests to POST /plan served by one process
    parked            \* the variables of the request that is not running

planVars ==
    <<pc, request, attempt, lastRawResponse, tripData, foundValid, orsData,
      validation, vDay, vI, dayDistance, dayDuration, orsSegments,
      allORSData, res, groqCalls, orsCalls, validatorCalls, parseFailures,
      groqThrows, lastModelReply, atAccept, orsFailure, outstanding>>

pageVars ==
    <<hpc, called, country, city, error, loading, pageTripData, submitted, countryFlag,
      countryValidation, cityValidation, submissions, countryAnswer, cityCall,
      cityLookup, cityAnswer, planPosts>>

stableVars == <<oracle, firstValidation>>

tripVars == <<trips, inflight, saves, tripsReq, tripsRes>>

authVars == <<users, reg>>

\* The weather and the saving of the trip-plan page
shownVars ==
    <<pageTripType, pageTripDate, planBody, weatherData, weatherLoading, weatherError,
      pendingEffect, weatherPosts, saving, saveError, saveSuccess, tripSaved, savePosts,
      confirmed>>

dashVars ==
    <<dpc, storedToken, dashRoute, meReply, historyReply, user, lastTrip,
      dashLoading, dashError, caught, isLoggedIn, appPending, jwtSecret, stale, logins,
      authError, historyPage, tripPage, backEntry>>

weatherVars == <<wpc, wreq, wres, wcall>>

pairVars == <<parked>>

vars ==
    <<planVars, pageVars, shownVars, inputs, stableVars, tripVars, authVars, dashVars,
      weatherVars, pairVars>>

\* What a request to POST /plan leaves alone
elsewhere ==
    <<pageVars, shownVars, inputs, stableVars, tripVars, authVars, dashVars, weatherVars, pairVars>>

(***************************************************************************)
(* Bounds of the model and constants of the program                        *)
(***************************************************************************)
MaxDays == 2        \* days of a candidate the model may return
MaxWaypoints == 4   \* waypoints of a candidate, over all its days
MaxRegistrations == 3   \* requests to POST /register

Registrations == 1..MaxRegistrations

maxRetries == 5

BikeMin == 10000
BikeMax == 60000
TrekMin == 5000
TrekMax == 15000

(***************************************************************************)
(* JS values                                                               *)
(***************************************************************************)
Undefined == [undefined |-> TRUE]
Null == [null |-> TRUE]
Str(text) == [string |-> text]

NoResponse == [status |-> 0]

(***************************************************************************)
(* Number formatting: Number.prototype.toFixed for a non-negative rational *)
(* num/den with f decimals.  The inputs of the model never fall on a       *)
(* rounding tie, where the result would depend on the binary               *)
(* representation of the quotient.                                         *)
(***************************************************************************)
Pow10(f) == IF f = 0 THEN 1 ELSE IF f = 1 THEN 10 ELSE 100

PadFraction(fp, f) ==
    IF f = 2 /\ fp < 10 THEN "0" \o ToString(fp) ELSE ToString(fp)

toFixed(num, den, f) ==
    LET n == (2 * num * Pow10(f) + den) \div (2 * den)
    IN  ToString(n \div Pow10(f)) \o "." \o PadFraction(n % Pow10(f), f)

\* Values of the oracle's summary fields and of the recorded segments: a JS
\* number is Num(n), anything else is Null or Undefined.
Num(n) == [number |-> n]
IsNumber(v) == "number" \in DOMAIN v

\* trip.js 664-666 and 667-669: dayDistance and dayDuration are numbers
FormatDayDistance(d) == toFixed(d, 1000, 2) \o " km"
FormatDayTime(t) == toFixed(t, 3600, 2) \o " hours"
\* trip.js 670-673 and 674-677
FormatSegDistance(seg) ==
    IF IsNumber(seg.distance)
    THEN toFixed(seg.distance.number, 1000, 2) \o " km" ELSE "N/A"
FormatSegDuration(seg) ==
    IF IsNumber(seg.duration)
    THEN toFixed(seg.duration.number, 60, 1) \o " min" ELSE "N/A"

(***************************************************************************)
(* Inputs: the replies of the generative model                             *)
(***************************************************************************)
Points == {"P1", "P2", "P3"}

\* A day of the prompt's shape (trip.js 536-548) with n waypoints; a day may
\* also come without its "cities" member.
DayShapes ==
    {[hasCities |-> TRUE, n |-> k] : k \in 0..MaxWaypoints}
        \cup {[hasCities |-> FALSE, n |-> 0]}

RECURSIVE SumCities(_)
SumCities(shape) ==
    IF shape = <<>> THEN 0 ELSE Head(shape).n + SumCities(Tail(shape))

\* A day with fewer than two waypoints, or without "cities", ends the
\* validation of its candidate (trip.js 403, 451), so that the days after it are
\* never read: the shapes enumerated have such a day in the last place only.
EndsValidation(ds) == ~ds.hasCities \/ ds.n < 2

Shapes ==
    {shape \in UNION {[1..k -> DayShapes] : k \in 0..MaxDays} :
        /\ SumCities(shape) <= MaxWaypoints
        /\ \A d \in 1..(Len(shape) - 1) : ~EndsValidation(shape[d])}

\* The model's self-reported figures use the prompt's units without decimals.
ModelDay(d, nDays, shape, end) ==
    LET ds == shape[d]
        waypoint(j) == [coordinates |->
                      IF d = 1 /\ j = 1 THEN "P1"
                      ELSE IF d = nDays /\ j = ds.n THEN end ELSE "P2"]
        reported == [day |-> d,
                     distances |-> [j \in 1..ds.n |-> IF j = 1 THEN "0 km" ELSE "4 km"],
                     totalDistance |-> "12 km",
                     estimatedTime |-> "3 hours"]
    IN  IF ds.hasCities
        THEN [day |-> reported.day,
              cities |-> [j \in 1..ds.n |-> waypoint(j)],
              distances |-> reported.distances,
              totalDistance |-> reported.totalDistance,
              estimatedTime |-> reported.estimatedTime]
        ELSE reported

Candidate(shape, end) ==
    [days |-> [d \in 1..Len(shape) |-> ModelDay(d, Len(shape), shape, end)]]

\* The itineraries the model may return: every shape within the bounds, ending
\* where it started ("P1") or elsewhere ("P3").
Candidates == {Candidate(shape, end) : shape \in Shapes, end \in {"P1", "P3"}}

\* A JSON object that is no itinerary, e.g. {"error": "no plan"}
NoItinerary == [error |-> "no plan"]

JsonObjects == Candidates \cup {NoItinerary}

\* Tokens of a raw reply
LBrace == [ch |-> "{"]
RBrace == [ch |-> "}"]
Prose == [ch |-> "x"]
Members(obj) == [ch |-> "members", value |-> obj]

Bare(obj) == <<LBrace, Members(obj), RBrace>>
InProse(obj) == <<Prose, LBrace, Members(obj), RBrace, Prose>>
BracesAfter(obj) == <<LBrace, Members(obj), RBrace, Prose, LBrace, Prose, RBrace>>

RawTexts ==
    {Bare(obj) : obj \in JsonObjects}
        \cup {InProse(NoItinerary), InProse(Candidate(<<>>, "P1")),
              BracesAfter(NoItinerary)}
        \cup {<<Prose>>, <<Prose, RBrace, Prose, LBrace>>}

\* What awaiting groq.chat.completions.create (trip.js 611-620) can give: a
\* rejection, a completion without content, or a completion with text.
GroqReplies ==
    {[kind |-> "throws"], [kind |-> "completion", content |-> Undefined]}
        \cup {[kind |-> "completion", content |-> Str(t)] : t \in RawTexts}

(***************************************************************************)
(* Inputs: the answers of the routing oracle                               *)
(***************************************************************************)
\* The profile chosen without regard to the trip type
ProfileAlwaysWalking(tripType) == "foot-walking"

\* trip.js 387
Profile(tripType) == IF tripType = "bike" THEN "cycling-regular" ELSE "foot-walking"

Summaries(profile) ==
    IF profile = "cycling-regular"
    THEN {[distance |-> Num(6000), duration |-> Num(1440)],
          [distance |-> Num(10000), duration |-> Num(2400)],
          [distance |-> Num(50000), duration |-> Num(12000)]}
    ELSE {[distance |-> Num(3000), duration |-> Num(2160)],
          [distance |-> Num(5000), duration |-> Num(3600)],
          [distance |-> Num(10000), duration |-> Num(7200)]}

\* Summaries in which a field is not a number
BadSummaries ==
    {[distance |-> Undefined, duration |-> Undefined],
     [distance |-> Num(10000), duration |-> Undefined]}

\* What awaiting axios.post (trip.js 410-424) can give: a rejection (transport
\* error or non-2xx status), a body without routes[0].geometry, a route
\* without summary, or a route with a summary.
OrsAnswers(profile) ==
    {[kind |-> "throws"], [kind |-> "response", geometry |-> FALSE],
     [kind |-> "response", geometry |-> TRUE]}
        \cup {[kind |-> "response", geometry |-> TRUE, summary |-> sm] :
                sm \in Summaries(profile) \cup BadSummaries}

(***************************************************************************)
(* Parsing the reply (trip.js 623-635)                                     *)
(***************************************************************************)
Failure == [ok |-> FALSE]

\* response.match(/\{[\s\S]*\}/): the span from the first "{" to the last
\* "}" of the text, when that "}" comes after that "{".
jsonMatch(text) ==
    LET opens == {i \in 1..Len(text) : text[i] = LBrace}
        closes == {i \in 1..Len(text) : text[i] = RBrace}
        first == CHOOSE i \in opens : \A k \in opens : i <= k
        last == CHOOSE j \in closes : \A k \in closes : k <= j
    IN  IF opens # {} /\ closes # {} /\ first < last
        THEN [ok |-> TRUE, match |-> SubSeq(text, first, last)]
        ELSE Failure

\* JSON.parse on a token sequence: the text of one object, or a SyntaxError
JSONparse(text) ==
    IF Len(text) = 3 /\ text[1] = LBrace /\ text[2].ch = "members" /\ text[3] = RBrace
    THEN [ok |-> TRUE, value |-> text[2].value]
    ELSE Failure

\* The try block of trip.js 624-635; a reply without content makes
\* response.match throw a TypeError, caught by the same catch.
ParseReply(response) ==
    IF ~("string" \in DOMAIN response) THEN Failure
    ELSE LET m == jsonMatch(response.string)
         IN  IF m.ok THEN JSONparse(m.match) ELSE JSONparse(response.string)

(***************************************************************************)
(* The validator's policy (trip.js 387-392, 451)                           *)
(***************************************************************************)
dayDistanceLimits(tripType) ==
    IF tripType = "bike" THEN [min |-> BikeMin, max |-> BikeMax]
    ELSE [min |-> TrekMin, max |-> TrekMax]

\* The limit check with the lower limit forgotten
OutsideLimitsMaxOnly(distance, tripType) ==
    distance > dayDistanceLimits(tripType).max

OutsideLimits(distance, tripType) ==
    \/ distance < dayDistanceLimits(tripType).min
    \/ distance > dayDistanceLimits(tripType).max

\* trip.js 427: the response lacks data, routes, routes[0] or its geometry
MissingRoute(answer) == ~answer.geometry

\* trip.js 434
NumericSummary(summary) == IsNumber(summary.distance) /\ IsNumber(summary.duration)

(***************************************************************************)
(* The responses of POST /plan                                             *)
(***************************************************************************)
MissingFields == [status |-> 400, error |-> "All fields are required"]
InvalidTripType == [status |-> 400, error |-> "Invalid trip type"]
\* trip.js 648-652 (the object handed to res.json: a rawResponse that is
\* undefined is left out of the body sent)
Exhausted(raw) ==
    [status |-> 500, error |-> "Failed to generate valid trip plan", rawResponse |-> raw]
\* trip.js 686-692, the handler's catch
PlanError == [status |-> 500, error |-> "Failed to plan trip"]
\* trip.js 680-684
Success(data) == [status |-> 200, success |-> TRUE, tripData |-> data]

\* The overwrite with the day's total left as the model reported it
OverwriteDayKeepsTotal(day, ors) ==
    [f \in DOMAIN day \cup {"estimatedTime", "distances", "durations"} |->
        CASE f = "estimatedTime" -> FormatDayTime(ors.dayDuration)
          [] f = "distances" ->
                [k \in 1..Len(ors.orsSegments) |-> FormatSegDistance(ors.orsSegments[k])]
          [] f = "durations" ->
                [k \in 1..Len(ors.orsSegments) |-> FormatSegDuration(ors.orsSegments[k])]
          [] OTHER -> day[f]]

\* trip.js 663-678: one day of the itinerary with the oracle's figures
OverwriteDay(day, ors) ==
    [f \in DOMAIN day \cup {"totalDistance", "estimatedTime", "distances", "durations"} |->
        CASE f = "totalDistance" -> FormatDayDistance(ors.dayDistance)
          [] f = "estimatedTime" -> FormatDayTime(ors.dayDuration)
          [] f = "distances" ->
                [k \in 1..Len(ors.orsSegments) |-> FormatSegDistance(ors.orsSegments[k])]
          [] f = "durations" ->
                [k \in 1..Len(ors.orsSegments) |-> FormatSegDuration(ors.orsSegments[k])]
          [] OTHER -> day[f]]

Overwrite(data, ors) ==
    [data EXCEPT !.days = [idx \in 1..Len(data.days) |-> OverwriteDay(data.days[idx], ors[idx])]]

\* The loop test admitting one attempt too many
LoopTestOffByOne(a) == IF a <= maxRetries THEN "GroqRequest" ELSE "Respond"

\* trip.js 609: the loop test
LoopTest(a) == IF a < maxRetries THEN "GroqRequest" ELSE "Respond"

(***************************************************************************)
(* The handler, step by step                                               *)
(***************************************************************************)
NoLocals ==
    /\ vDay' = 0
    /\ vI' = 0
    /\ dayDistance' = 0
    /\ dayDuration' = 0
    /\ orsSegments' = <<>>
    /\ allORSData' = <<>>

observed ==
    <<groqCalls, orsCalls, validatorCalls, parseFailures, groqThrows, lastModelReply,
      atAccept, orsFailure, outstanding>>
locals == <<vDay, vI, dayDistance, dayDuration, orsSegments, allORSData>>
loopState == <<attempt, lastRawResponse, tripData, foundValid, orsData, validation>>

\* The handler's variables before its first step
PlanFresh ==
    /\ attempt = 0
    /\ lastRawResponse = Null
    /\ tripData = Undefined
    /\ foundValid = FALSE
    /\ orsData = Null
    /\ validation = Undefined
    /\ vDay = 0
    /\ vI = 0
    /\ dayDistance = 0
    /\ dayDuration = 0
    /\ orsSegments = <<>>
    /\ allORSData = <<>>
    /\ res = NoResponse
    /\ groqCalls = 0
    /\ orsCalls = 0
    /\ validatorCalls = 0
    /\ parseFailures = 0
    /\ groqThrows = 0
    /\ lastModelReply = Null
    /\ atAccept = Null
    /\ orsFailure = "none"
    /\ outstanding = {}

\* No request to POST /plan
PlanIdle ==
    /\ pc = "idle"
    /\ request = Undefined
    /\ PlanFresh

\* What the user may type into the form
CountryInputs == {"France", "france", "Paris", "Atlantic Ocean"}
CityInputs == {"Paris", "Lyon"}
TripTypeInputs == {"bike", "trek"}

\* Top results of the geocoder (search with limit=1 and addressdetails=1)
GeoFrance ==
    [display_name |-> "France", addresstype |-> "country",
     address |-> [country |-> "France", country_code |-> "fr"]]
GeoParisFrance ==
    [display_name |-> "Paris, Ile-de-France, France", addresstype |-> "city",
     address |-> [city |-> "Paris", country |-> "France", country_code |-> "fr"]]
GeoParisTexas ==
    [display_name |-> "Paris, Texas, United States", addresstype |-> "city",
     address |-> [city |-> "Paris", country |-> "United States", country_code |-> "us"]]
\* A place outside every country: its address has no country and no code
GeoOcean ==
    [display_name |-> "Atlantic Ocean", addresstype |-> "ocean",
     address |-> [ocean |-> "Atlantic Ocean"]]
\* A result without address details
GeoNoAddress == [display_name |-> "Atlantic Ocean", addresstype |-> "ocean"]

GeoResults == {GeoFrance, GeoParisFrance, GeoParisTexas, GeoOcean, GeoNoAddress}

\* What awaiting axios.get of the geocoder can give (TripPlan.js 99, 142): a
\* rejection, an empty list, or a list of one result
GeoAnswers ==
    {[kind |-> "throws"], [kind |-> "response", data |-> <<>>]}
        \cup {[kind |-> "response", data |-> <<r>>] : r \in GeoResults}

\* Every input of the model
AllInputs ==
    [country |-> CountryInputs, city |-> CityInputs, tripType |-> TripTypeInputs,
     tripDate |-> {"2026-11-01"}, geocoder |-> GeoAnswers,
     model |-> GroqReplies,
     oracle |-> [profile \in {"cycling-regular", "foot-walking"} |-> OrsAnswers(profile)]]

\* The inputs for two requests served together: a reply of the model is a
\* text without JSON or a candidate of one day, the oracle measures a
\* segment within the limits of its profile or below them
PairInputs ==
    [model |-> {[kind |-> "completion", content |-> Str(t)] :
                  t \in {<<Prose>>, Bare(Candidate(<<[hasCities |-> TRUE, n |-> 2]>>, "P1"))}},
     oracle |-> [profile \in {"cycling-regular", "foot-walking"} |->
                  {[kind |-> "response", geometry |-> TRUE, summary |-> sm] :
                      sm \in {x \in Summaries(profile) :
                                x.distance.number \in
                                    IF profile = "cycling-regular" THEN {6000, 50000}
                                    ELSE {3000, 5000}}}]]

\* The inputs with which every lookup of a French city succeeds or fails in
\* the network, for the behaviours that follow the page after the lookups;
\* today is what new Date() gives the page (TripPlan.js 579), the noon of
\* the day of the trip or of the day after
FrenchInputs ==
    [country |-> {"France"}, city |-> CityInputs, tripType |-> {"trek"},
     tripDate |-> {"2026-11-01"},
     today |-> {[day |-> 1, hour |-> 12], [day |-> 2, hour |-> 12]},
     geocoder |-> {[kind |-> "throws"], [kind |-> "response", data |-> <<GeoFrance>>],
                   [kind |-> "response", data |-> <<GeoParisFrance>>]}]

\* What the user may type and what the geocoder, the model and the oracle
\* may answer
Given ==
    CASE inputs = "all" -> AllInputs
      [] inputs = "french" -> FrenchInputs
      [] inputs = "pair" -> PairInputs

\* TripPlan.js 33-66: the state of the page as it is mounted
PageState ==
    /\ hpc = "form"
    /\ called = Null
    /\ country = ""
    /\ city = ""
    /\ error = ""
    /\ loading = FALSE
    /\ pageTripData = Null
    /\ submitted = [country |-> "", city |-> "", tripType |-> "", tripDate |-> ""]
    /\ countryFlag = Null
    /\ countryValidation = Undefined
    /\ cityValidation = Undefined
    /\ submissions = 0
    /\ countryAnswer = Null
    /\ cityCall = Null
    /\ cityLookup = Null
    /\ cityAnswer = Null
    /\ planPosts = 0
    /\ pageTripType = ""
    /\ pageTripDate = ""
    /\ planBody = Null
    /\ weatherData = Null
    /\ weatherLoading = FALSE
    /\ weatherError = ""
    /\ pendingEffect = Null
    /\ weatherPosts = EmptyBag
    /\ saving = FALSE
    /\ saveError = ""
    /\ saveSuccess = ""
    /\ tripSaved = FALSE
    /\ savePosts = {}
    /\ confirmed = {}

\* The page as it is mounted, with every input of the model
PageMounted == PageState /\ inputs = "all"

\* The oracle has not been asked, the validator has not returned
NothingValidated ==
    /\ oracle = <<>>
    /\ firstValidation = Undefined

\* No trip stored, no request made
NoTrips ==
    /\ trips = <<>>
    /\ inflight = EmptyBag
    /\ saves = 0
    /\ tripsReq = Null
    /\ tripsRes = NoResponse

\* No user stored, no request to POST /register
NoUsers ==
    /\ users = {}
    /\ reg = [r \in Registrations |-> [at |-> "idle"]]

\* TripHistory.js 5-7 (part_001 33-40): the state of a trip-history page
\* that is mounted, which is also what is left of one that is not
HistoryPage(position) ==
    [at |-> position, request |-> Undefined, trips |-> <<>>, loading |-> TRUE, error |-> ""]

\* TripView.js 73-75: the state of the page of a trip
TripPage(position) ==
    [at |-> position, request |-> Undefined, trip |-> Null, loading |-> TRUE, error |-> ""]

\* Dashboard.jsx 31-39: the dashboard before it is mounted
DashUnmounted ==
    /\ dpc = "unmounted"
    /\ storedToken = Null
    /\ dashRoute = "/dashboard"
    /\ meReply = Undefined
    /\ historyReply = Undefined
    /\ user = Null
    /\ lastTrip = Null
    /\ dashLoading = TRUE
    /\ dashError = ""
    /\ caught = Undefined
    /\ isLoggedIn = FALSE
    /\ appPending = FALSE
    /\ jwtSecret = Undefined
    /\ stale = EmptyBag
    /\ logins = [live |-> 0, dead |-> 0]
    /\ authError = ""
    /\ historyPage = HistoryPage("unmounted")
    /\ tripPage = TripPage("unmounted")
    /\ backEntry = Null

\* No request to POST /weather
NoWeatherRequest ==
    /\ wpc = "idle"
    /\ wreq = Undefined
    /\ wres = <<>>
    /\ wcall = Null

\* No pair of requests to POST /plan
NoPair ==
    /\ parked = Null

\* Neither the dashboard, nor POST /weather, nor a pair of requests
Quiet == DashUnmounted /\ NoWeatherRequest /\ NoPair

Init ==
    /\ pc = "start"
    /\ request \in [complete : BOOLEAN, tripType : {"bike", "trek", "car"}]
    /\ PlanFresh
    /\ PageMounted
    /\ NothingValidated
    /\ NoTrips
    /\ NoUsers
    /\ Quiet

\* trip.js 686-692: an exception anywhere in the handler ends the request
Catch ==
    /\ res' = PlanError
    /\ pc' = "done"

\* trip.js 491-507 and 596-609
ValidateInput ==
    /\ pc = "start"
    /\ UNCHANGED elsewhere
    /\ IF ~request.complete THEN res' = MissingFields /\ pc' = "done"
       ELSE IF request.tripType \notin {"bike", "trek"}
            THEN res' = InvalidTripType /\ pc' = "done"
            ELSE res' = res /\ pc' = LoopTest(attempt)
    /\ UNCHANGED <<request, loopState, locals, observed>>

\* The parse catch without its "continue": the validator is called on whatever
\* tripData holds
AfterParseFallsThrough(parsed) ==
    /\ tripData' = IF parsed.ok THEN parsed.value ELSE tripData
    /\ pc' = "Validate"
    /\ attempt' = attempt

\* trip.js 627-635: a parsed reply goes on to the validator; the catch of a
\* reply that does not parse continues with the next attempt
AfterParse(parsed) ==
    IF parsed.ok
    THEN /\ tripData' = parsed.value
         /\ pc' = "Validate"
         /\ attempt' = attempt
    ELSE /\ attempt' = attempt + 1
         /\ pc' = LoopTest(attempt + 1)
         /\ tripData' = tripData

\* The call of the model (trip.js 611-619), as it is in flight
GroqCallOf(a) == [kind |-> "groq", attempt |-> a]

\* trip.js 609-619: the loop body is entered and the model is called
GroqRequest ==
    /\ pc = "GroqRequest"
    /\ UNCHANGED elsewhere
    /\ outstanding' = outstanding \cup {GroqCallOf(attempt)}
    /\ pc' = "Requesting"
    /\ UNCHANGED <<request, loopState, locals, res, groqCalls, orsCalls, validatorCalls,
                   parseFailures, groqThrows, lastModelReply, atAccept, orsFailure>>

\* trip.js 611-635: the model's call is answered and its reply is parsed
Requesting ==
    /\ pc = "Requesting"
    /\ UNCHANGED elsewhere
    /\ outstanding' = outstanding \ {GroqCallOf(attempt)}
    /\ groqCalls' = groqCalls + 1
    /\ orsFailure' = "none"
    /\ \E reply \in Given.model :
          IF reply.kind = "throws"
          THEN /\ Catch
               /\ groqThrows' = groqThrows + 1
               /\ UNCHANGED <<lastRawResponse, lastModelReply, tripData, attempt,
                              parseFailures>>
          ELSE /\ lastRawResponse' = reply.content
               /\ lastModelReply' = reply.content
               /\ res' = res
               /\ AfterParse(ParseReply(reply.content))
               /\ parseFailures' =
                     IF ParseReply(reply.content).ok THEN parseFailures
                     ELSE parseFailures + 1
               /\ groqThrows' = groqThrows
    /\ UNCHANGED <<request, foundValid, orsData, validation, locals, orsCalls,
                   validatorCalls, atAccept>>

\* trip.js 638 and 385-397: the call of the validator, up to the day loop
ValidateEnter ==
    /\ pc = "Validate"
    /\ UNCHANGED elsewhere
    /\ validatorCalls' = validatorCalls + 1
    /\ orsCalls' = 0
    /\ IF "days" \in DOMAIN tripData
       THEN /\ vDay' = 1
            /\ pc' = "DayLoop"
            /\ res' = res
       ELSE /\ Catch
            /\ vDay' = vDay
    /\ UNCHANGED <<request, loopState, vI, dayDistance, dayDuration, orsSegments,
                   allORSData, groqCalls, parseFailures, groqThrows,
                   lastModelReply, atAccept, orsFailure, outstanding>>

\* The validator's return without the fresh locals of a call: allORSData is
\* kept from one call to the next
ReturnKeepsRecord(result) ==
    /\ validation' = result
    /\ pc' = "AfterValidate"
    /\ vDay' = 0
    /\ vI' = 0
    /\ dayDistance' = 0
    /\ dayDuration' = 0
    /\ orsSegments' = <<>>
    /\ allORSData' = allORSData

\* The validator returns (trip.js 428, 446, 452, 458)
Return(result) ==
    /\ validation' = result
    /\ pc' = "AfterValidate"
    /\ NoLocals

\* trip.js 397-403 and 458: the day loop's head and the segment loop's entry
DayLoop ==
    /\ pc = "DayLoop"
    /\ UNCHANGED elsewhere
    /\ IF vDay > Len(tripData.days)
       THEN /\ Return([valid |-> TRUE, allORSData |-> allORSData])
            /\ res' = res
       ELSE LET day == tripData.days[vDay]
            IN  IF "cities" \in DOMAIN day
                THEN /\ dayDistance' = 0
                     /\ dayDuration' = 0
                     /\ orsSegments' = <<>>
                     /\ vI' = 0
                     /\ pc' = IF 0 < Len(day.cities) - 1 THEN "OrsRequest" ELSE "DayCheck"
                     /\ UNCHANGED <<vDay, allORSData, validation, res>>
                ELSE /\ Catch
                     /\ UNCHANGED <<locals, validation>>
    /\ UNCHANGED <<request, attempt, lastRawResponse, tripData, foundValid, orsData, observed>>

\* The request to the oracle for segment i of a day (trip.js 404-424), as it
\* is in flight
OrsCallOf(d, i, tripType) ==
    [kind |-> "ors", day |-> d, segment |-> i, profile |-> Profile(tripType)]

\* The segment loop handing all the day's remaining requests to the oracle at
\* once, without awaiting each
OrsRequestAllAtOnce ==
    /\ pc = "OrsRequest"
    /\ UNCHANGED elsewhere
    /\ outstanding' = outstanding \cup
          {OrsCallOf(vDay, i, request.tripType) :
              i \in vI..(Len(tripData.days[vDay].cities) - 2)}
    /\ pc' = "OrsCall"
    /\ UNCHANGED <<request, loopState, locals, res, groqCalls, orsCalls, validatorCalls,
                   parseFailures, groqThrows, lastModelReply, atAccept, orsFailure>>

\* trip.js 403-424: the segment loop's body is entered and the request for
\* segment i is sent to the oracle
OrsRequest ==
    /\ pc = "OrsRequest"
    /\ UNCHANGED elsewhere
    /\ outstanding' = outstanding \cup {OrsCallOf(vDay, vI, request.tripType)}
    /\ pc' = "OrsCall"
    /\ UNCHANGED <<request, loopState, locals, res, groqCalls, orsCalls, validatorCalls,
                   parseFailures, groqThrows, lastModelReply, atAccept, orsFailure>>

\* How an answer of the oracle fails the candidate: axios.post rejects
\* (trip.js 410, caught at 444), the body lacks the route or its geometry
\* (427), or the route lacks its summary (reading summary.distance at 434
\* throws a TypeError, caught at 444); "none" when it does not.
OrsFailureOf(answer) ==
    IF answer.kind = "throws" THEN "throws"
    ELSE IF MissingRoute(answer) THEN "missing route"
    ELSE IF ~("summary" \in DOMAIN answer) THEN "missing summary"
    ELSE "none"

\* The segment's request with the catch of trip.js 444 left out: a rejection
\* of axios.post reaches the handler's catch
OrsCallThrowAborts ==
    /\ pc = "OrsCall"
    /\ UNCHANGED elsewhere
    /\ orsCalls' = orsCalls + 1
    /\ outstanding' = outstanding \ {OrsCallOf(vDay, vI, request.tripType)}
    /\ \E answer \in Given.oracle[Profile(request.tripType)] :
          /\ orsFailure' = OrsFailureOf(answer)
          /\ IF answer.kind = "throws"
             THEN /\ Catch
                  /\ UNCHANGED <<locals, validation>>
             ELSE IF OrsFailureOf(answer) # "none"
             THEN /\ Return([valid |-> FALSE])
                  /\ res' = res
             ELSE /\ IF NumericSummary(answer.summary)
                     THEN /\ dayDistance' = dayDistance + answer.summary.distance.number
                          /\ dayDuration' = dayDuration + answer.summary.duration.number
                          /\ orsSegments' = Append(orsSegments, answer.summary)
                     ELSE /\ orsSegments' = Append(orsSegments, [distance |-> Null, duration |-> Null])
                          /\ UNCHANGED <<dayDistance, dayDuration>>
                  /\ vI' = vI + 1
                  /\ pc' = IF vI + 1 < Len(tripData.days[vDay].cities) - 1
                           THEN "OrsRequest" ELSE "DayCheck"
                  /\ UNCHANGED <<vDay, allORSData, validation, res>>
    /\ UNCHANGED <<request, attempt, lastRawResponse, tripData, foundValid, orsData,
                   groqCalls, validatorCalls, parseFailures, groqThrows, lastModelReply,
                   atAccept>>

\* trip.js 426-447: what the validator does with the answer to a segment
OrsAnswered(answer) ==
    /\ orsCalls' = orsCalls + 1
    /\ outstanding' = outstanding \ {OrsCallOf(vDay, vI, request.tripType)}
    /\ orsFailure' = OrsFailureOf(answer)
    /\ IF OrsFailureOf(answer) # "none"
       THEN Return([valid |-> FALSE])
       ELSE /\ IF NumericSummary(answer.summary)
               THEN /\ dayDistance' = dayDistance + answer.summary.distance.number
                    /\ dayDuration' = dayDuration + answer.summary.duration.number
                    /\ orsSegments' = Append(orsSegments, answer.summary)
               ELSE /\ orsSegments' = Append(orsSegments, [distance |-> Null, duration |-> Null])
                    /\ UNCHANGED <<dayDistance, dayDuration>>
            /\ vI' = vI + 1
            /\ pc' = IF vI + 1 < Len(tripData.days[vDay].cities) - 1
                     THEN "OrsRequest" ELSE "DayCheck"
            /\ UNCHANGED <<vDay, allORSData, validation>>
    /\ UNCHANGED <<request, attempt, lastRawResponse, tripData, foundValid, orsData, res,
                   groqCalls, validatorCalls, parseFailures, groqThrows, lastModelReply,
                   atAccept>>

\* trip.js 404-448: one segment's request to the oracle and its answer
OrsCall ==
    /\ pc = "OrsCall"
    /\ UNCHANGED elsewhere
    /\ \E answer \in Given.oracle[Profile(request.tripType)] : OrsAnswered(answer)

\* trip.js 450-456
DayCheck ==
    /\ pc = "DayCheck"
    /\ UNCHANGED elsewhere
    /\ IF OutsideLimits(dayDistance, request.tripType)
       THEN Return([valid |-> FALSE])
       ELSE /\ allORSData' = Append(allORSData,
                                [dayDistance |-> dayDistance,
                                 dayDuration |-> dayDuration,
                                 orsSegments |-> orsSegments])
            /\ vDay' = vDay + 1
            /\ pc' = "DayLoop"
            /\ UNCHANGED <<vI, dayDistance, dayDuration, orsSegments, validation>>
    /\ UNCHANGED <<request, attempt, lastRawResponse, tripData, foundValid, orsData, res,
                   observed>>

\* The acceptance without its "break": the loop goes on after a valid candidate
AfterValidateNoBreak ==
    /\ pc = "AfterValidate"
    /\ UNCHANGED elsewhere
    /\ IF validation.valid
       THEN /\ foundValid' = TRUE
            /\ orsData' = validation.allORSData
            /\ atAccept' = IF foundValid THEN atAccept
                           ELSE [groqCalls |-> groqCalls, orsCalls |-> orsCalls]
       ELSE UNCHANGED <<foundValid, orsData, atAccept>>
    /\ attempt' = attempt + 1
    /\ pc' = LoopTest(attempt + 1)
    /\ validation' = Undefined
    /\ UNCHANGED <<request, lastRawResponse, tripData, locals, res, groqCalls, orsCalls,
                   validatorCalls, parseFailures, groqThrows, lastModelReply, orsFailure,
                   outstanding>>

\* trip.js 639-644
AfterValidate ==
    /\ pc = "AfterValidate"
    /\ UNCHANGED elsewhere
    /\ IF validation.valid
       THEN /\ foundValid' = TRUE
            /\ orsData' = validation.allORSData
            /\ atAccept' = [groqCalls |-> groqCalls, orsCalls |-> orsCalls]
            /\ pc' = "Respond"
            /\ attempt' = attempt
       ELSE /\ attempt' = attempt + 1
            /\ pc' = LoopTest(attempt + 1)
            /\ UNCHANGED <<foundValid, orsData, atAccept>>
    /\ validation' = Undefined
    /\ UNCHANGED <<request, lastRawResponse, tripData, locals, res, groqCalls, orsCalls,
                   validatorCalls, parseFailures, groqThrows, lastModelReply, orsFailure,
                   outstanding>>

\* trip.js 646-684
Respond ==
    /\ pc = "Respond"
    /\ UNCHANGED elsewhere
    /\ IF ~foundValid
       THEN /\ res' = Exhausted(lastRawResponse)
            /\ tripData' = tripData
       ELSE /\ tripData' = Overwrite(tripData, orsData)
            /\ res' = Success(tripData')
    /\ pc' = "done"
    /\ UNCHANGED <<request, attempt, lastRawResponse, foundValid, orsData, validation,
                   locals, observed>>

Next ==
    \/ ValidateInput
    \/ GroqRequest
    \/ Requesting
    \/ ValidateEnter
    \/ DayLoop
    \/ OrsRequest
    \/ OrsCall
    \/ DayCheck
    \/ AfterValidate
    \/ Respond

Spec == Init /\ [][Next]_vars

(***************************************************************************)
(* Two requests to POST /plan in one process.  Node runs a handler until   *)
(* it awaits; every variable of the handler and of the validator is        *)
(* declared inside the function (trip.js 385-395, 491, 596-600), so each   *)
(* request has its own.  The variables of the model hold the request that  *)
(* is running, parked those of the other.                                  *)
(***************************************************************************)
\* The variables of the running request
Frame ==
    [pc |-> pc, request |-> request, attempt |-> attempt,
     lastRawResponse |-> lastRawResponse, tripData |-> tripData,
     foundValid |-> foundValid, orsData |-> orsData, validation |-> validation,
     vDay |-> vDay, vI |-> vI, dayDistance |-> dayDistance,
     dayDuration |-> dayDuration, orsSegments |-> orsSegments,
     allORSData |-> allORSData, res |-> res, groqCalls |-> groqCalls,
     orsCalls |-> orsCalls, validatorCalls |-> validatorCalls,
     parseFailures |-> parseFailures, groqThrows |-> groqThrows,
     lastModelReply |-> lastModelReply, atAccept |-> atAccept,
     orsFailure |-> orsFailure, outstanding |-> outstanding]

\* The variables of a request that has arrived and has not yet been handled
Arrived(req) ==
    [pc |-> "start", request |-> req, attempt |-> 0, lastRawResponse |-> Null,
     tripData |-> Undefined, foundValid |-> FALSE, orsData |-> Null,
     validation |-> Undefined, vDay |-> 0, vI |-> 0, dayDistance |-> 0,
     dayDuration |-> 0, orsSegments |-> <<>>, allORSData |-> <<>>,
     res |-> NoResponse, groqCalls |-> 0, orsCalls |-> 0, validatorCalls |-> 0,
     parseFailures |-> 0, groqThrows |-> 0, lastModelReply |-> Null,
     atAccept |-> Null, orsFailure |-> "none", outstanding |-> {}]

\* The other request goes on where it was
Resume(f) ==
    /\ pc' = f.pc
    /\ request' = f.request
    /\ attempt' = f.attempt
    /\ lastRawResponse' = f.lastRawResponse
    /\ tripData' = f.tripData
    /\ foundValid' = f.foundValid
    /\ orsData' = f.orsData
    /\ validation' = f.validation
    /\ vDay' = f.vDay
    /\ vI' = f.vI
    /\ dayDistance' = f.dayDistance
    /\ dayDuration' = f.dayDuration
    /\ orsSegments' = f.orsSegments
    /\ allORSData' = f.allORSData
    /\ res' = f.res
    /\ groqCalls' = f.groqCalls
    /\ orsCalls' = f.orsCalls
    /\ validatorCalls' = f.validatorCalls
    /\ parseFailures' = f.parseFailures
    /\ groqThrows' = f.groqThrows
    /\ lastModelReply' = f.lastModelReply
    /\ atAccept' = f.atAccept
    /\ orsFailure' = f.orsFailure
    /\ outstanding' = f.outstanding

\* The handler with attempt and lastRawResponse declared outside it: the
\* request that resumes finds the values the other request left
SwitchSharingLoopState ==
    /\ parked # Null
    /\ pc \in {"start", "Requesting", "OrsCall", "done"}
    /\ parked' = Frame
    /\ Resume([parked EXCEPT !.attempt = attempt, !.lastRawResponse = lastRawResponse])
    /\ UNCHANGED <<pageVars, shownVars, inputs, stableVars, tripVars, authVars,
                   dashVars, weatherVars>>

\* The running request has not started, awaits the model or the oracle
\* (trip.js 611, 410), or has responded: the process turns to the other one
Switch ==
    /\ parked # Null
    /\ pc \in {"start", "Requesting", "OrsCall", "done"}
    /\ parked' = Frame
    /\ Resume(parked)
    /\ UNCHANGED <<pageVars, shownVars, inputs, stableVars, tripVars, authVars,
                   dashVars, weatherVars>>

InitPair ==
    /\ pc = "start"
    /\ request \in [complete : {TRUE}, tripType : {"bike", "trek"}]
    /\ PlanFresh
    /\ parked = Arrived([complete |-> TRUE, tripType |-> "trek"])
    /\ PageState /\ inputs = "pair"
    /\ NothingValidated /\ NoTrips /\ NoUsers /\ DashUnmounted /\ NoWeatherRequest

NextPair ==
    \/ Next
    \/ Switch

SpecPair == InitPair /\ [][NextPair]_vars

(***************************************************************************)
(* The trip-plan page of the client: the geocoding gate and the submission *)
(* of the form (src/client/src/pages/TripPlan.js 97-167 and 213-356).      *)
(* The geocoder, the server and the user are the environment.  Markers,    *)
(* polylines and the map centre, which only feed the display, are left     *)
(* out, and so are lat and lon of a result: handleSubmit reads only        *)
(* isValid and countryCode of the two validations.                         *)
(***************************************************************************)
MaxSubmissions == 2   \* submissions of the form that are followed

\* String.prototype.toUpperCase on the country codes of the model
toUpperCase(code) ==
    CASE code = "fr" -> "FR"
      [] code = "us" -> "US"
      [] code = "il" -> "IL"
      [] OTHER -> code

\* obj.address?.f as a JS value
AddressField(location, f) ==
    IF "address" \in DOMAIN location /\ f \in DOMAIN location.address
    THEN Str(location.address[f]) ELSE Undefined

\* A value passed to "!" or "&&": undefined and the empty string are falsy
Falsy(v) == v = Undefined \/ v = Str("")

\* TripPlan.js 97-135: validateCountry, given what the lookup gave
validateCountry(answer) ==
    IF answer.kind = "throws" THEN [isValid |-> FALSE]
    ELSE IF Len(answer.data) > 0
    THEN LET location == answer.data[1]
             code == AddressField(location, "country_code")
             name == AddressField(location, "country")
         IN  IF ~Falsy(code) /\ ~Falsy(name)
             THEN [isValid |-> TRUE, displayName |-> location.display_name,
                   countryCode |-> toUpperCase(code.string)]
             ELSE [isValid |-> TRUE, displayName |-> location.display_name,
                   countryCode |-> "IL"]
    ELSE [isValid |-> FALSE]

\* TripPlan.js 141-166: validateCity after its lookup, given what it gave
validateCity(answer, countryCode) ==
    IF answer.kind = "throws" THEN [isValid |-> FALSE]
    ELSE IF /\ Len(answer.data) > 0
            /\ ~Falsy(AddressField(answer.data[1], "country_code"))
            /\ toUpperCase(answer.data[1].address.country_code) = countryCode
    THEN [isValid |-> TRUE, displayName |-> answer.data[1].display_name]
    ELSE [isValid |-> FALSE]

\* TripPlan.js 229 and 237
countryError(name) ==
    "No country found with the name \"" \o name
        \o "\". Please check the country name and try again."
cityError(cityName, countryName) ==
    "Could not find \"" \o cityName \o "\" in " \o countryName
        \o ". Please check the city name and try again."
\* TripPlan.js 347 and 354
generateError == "Failed to generate trip plan. Please try again."
connectionError == "Failed to plan trip. Please check your connection and try again."

\* The itineraries the server may send with success: one day of two
\* waypoints, or no day at all
PageTrips == {Candidate(<<[hasCities |-> TRUE, n |-> 2]>>, "P1"), Candidate(<<>>, "P1")}

\* What awaiting axios.post of /api/trip/plan can give (TripPlan.js 243): a
\* 2xx body, a rejection carrying the body of a 4xx or 5xx response, or a
\* rejection without response
PlanAnswers ==
    {[kind |-> "response", data |-> Success(trip)] : trip \in PageTrips}
        \cup {[kind |-> "response", data |-> [status |-> 200, success |-> FALSE]]}
        \cup {[kind |-> "throws", response |-> body] :
                body \in {MissingFields, Exhausted(Null), PlanError}}
        \cup {[kind |-> "throws"]}

\* The argument obj.f of a call: undefined when obj has no such property
Prop(obj, f) == IF f \in DOMAIN obj THEN Str(obj[f]) ELSE Undefined

outsidePage ==
    <<inputs, planVars, stableVars, tripVars, authVars, dashVars, weatherVars, pairVars>>

\* setError, setLoading(false) and the return of handleSubmit
\* (TripPlan.js 229-231, 237-239, 347, 349-358)
Abort(message) ==
    /\ error' = message
    /\ loading' = FALSE
    /\ hpc' = "form"

\* What the fields of the form hold (TripPlan.js 33-36)
Fields ==
    [country |-> country, city |-> city, tripType |-> pageTripType,
     tripDate |-> pageTripDate]

\* TripPlan.js 472, 485, 497 and 513: the onChange handlers of the form.
\* The fields are never disabled; the effects of a render have run before
\* React handles the next event of the user.
SetCountry ==
    /\ pendingEffect = Null
    /\ \E value \in Given.country : value # country /\ country' = value
    /\ UNCHANGED <<hpc, called, city, error, loading, pageTripData, submitted,
                   countryFlag, countryValidation, cityValidation, submissions,
                   countryAnswer, cityCall, cityLookup, cityAnswer, planPosts>>
    /\ UNCHANGED shownVars
    /\ UNCHANGED outsidePage

SetCity ==
    /\ pendingEffect = Null
    /\ \E value \in Given.city : value # city /\ city' = value
    /\ UNCHANGED <<hpc, called, country, error, loading, pageTripData, submitted,
                   countryFlag, countryValidation, cityValidation, submissions,
                   countryAnswer, cityCall, cityLookup, cityAnswer, planPosts>>
    /\ UNCHANGED shownVars
    /\ UNCHANGED outsidePage

SetTripType ==
    /\ pendingEffect = Null
    /\ \E value \in Given.tripType : value # pageTripType /\ pageTripType' = value
    /\ UNCHANGED pageVars
    /\ UNCHANGED <<pageTripDate, planBody, weatherData, weatherLoading, weatherError,
                   pendingEffect, weatherPosts, saving, saveError, saveSuccess, tripSaved,
                   savePosts, confirmed>>
    /\ UNCHANGED outsidePage

SetTripDate ==
    /\ pendingEffect = Null
    /\ \E value \in Given.tripDate : value # pageTripDate /\ pageTripDate' = value
    /\ UNCHANGED pageVars
    /\ UNCHANGED <<pageTripType, planBody, weatherData, weatherLoading, weatherError,
                   pendingEffect, weatherPosts, saving, saveError, saveSuccess, tripSaved,
                   savePosts, confirmed>>
    /\ UNCHANGED outsidePage

\* TripPlan.js 213-227 and 462-523: the form is submitted.  Every field is
\* required (474, 487, 499, 515), so the browser submits the form only with
\* all four filled; the button is disabled while loading (520).  The
\* handler reads country, city, tripType and tripDate of the render it was
\* created in, whatever is typed while it awaits.
Submit ==
    /\ hpc = "form"
    /\ ~loading
    /\ submissions < MaxSubmissions
    /\ country # "" /\ city # "" /\ pageTripType # "" /\ pageTripDate # ""
    /\ called' = Fields
    /\ error' = ""
    /\ loading' = TRUE
    /\ pageTripData' = Null
    /\ tripSaved' = FALSE
    /\ saveError' = ""
    /\ saveSuccess' = ""
    /\ submissions' = submissions + 1
    /\ countryValidation' = Undefined
    /\ cityValidation' = Undefined
    /\ countryAnswer' = Null
    /\ cityCall' = Null
    /\ cityLookup' = Null
    /\ cityAnswer' = Null
    /\ planPosts' = 0
    /\ hpc' = "validateCountry"
    /\ UNCHANGED <<country, city, submitted, countryFlag>>
    /\ UNCHANGED <<pageTripType, pageTripDate, planBody, weatherData, weatherLoading,
                   weatherError, pendingEffect, weatherPosts, saving, savePosts, confirmed>>
    /\ UNCHANGED outsidePage

\* TripPlan.js 139-146: validateCity is called; with a falsy code it returns
\* at once, otherwise it sends its lookup
CallValidateCity(code) ==
    /\ cityCall' = [cityName |-> called.city, countryCode |-> code]
    /\ IF Falsy(code)
       THEN /\ cityValidation' = [isValid |-> FALSE]
            /\ Abort(cityError(called.city, called.country))
            /\ cityLookup' = cityLookup
       ELSE /\ cityLookup' = [q |-> called.city, countrycodes |-> code.string]
            /\ hpc' = "validateCity"
            /\ UNCHANGED <<cityValidation, error, loading>>

\* TripPlan.js 243-248: the body of the POST of /api/trip/plan
PlanBody ==
    [country |-> called.country, city |-> called.city, tripType |-> called.tripType,
     tripDate |-> called.tripDate]

\* The country step without its test of isValid
CountryAnswerNoGate ==
    /\ hpc = "validateCountry"
    /\ pendingEffect = Null
    /\ \E answer \in Given.geocoder :
          /\ countryAnswer' = answer
          /\ countryValidation' = validateCountry(answer)
          /\ CallValidateCity(Prop(validateCountry(answer), "countryCode"))
    /\ UNCHANGED <<called, country, city, pageTripData, submitted, countryFlag, submissions,
                   cityAnswer, planPosts>>
    /\ UNCHANGED shownVars
    /\ UNCHANGED outsidePage

\* TripPlan.js 227-235: the country lookup is answered.  The submission has
\* been rendered by then, and React runs the effects of the render before
\* it renders again.
CountryAnswer ==
    /\ hpc = "validateCountry"
    /\ pendingEffect = Null
    /\ \E answer \in Given.geocoder :
          /\ countryAnswer' = answer
          /\ countryValidation' = validateCountry(answer)
          /\ IF ~validateCountry(answer).isValid
             THEN /\ Abort(countryError(called.country))
                  /\ UNCHANGED <<cityCall, cityLookup, cityValidation>>
             ELSE CallValidateCity(Prop(validateCountry(answer), "countryCode"))
    /\ UNCHANGED <<called, country, city, pageTripData, submitted, countryFlag, submissions,
                   cityAnswer, planPosts>>
    /\ UNCHANGED shownVars
    /\ UNCHANGED outsidePage

\* The city step without its test of isValid
CityAnswerNoGate ==
    /\ hpc = "validateCity"
    /\ \E answer \in Given.geocoder :
          /\ cityAnswer' = answer
          /\ cityValidation' = validateCity(answer, cityLookup.countrycodes)
    /\ planPosts' = planPosts + 1
    /\ planBody' = PlanBody
    /\ hpc' = "awaitPlan"
    /\ UNCHANGED <<error, loading>>
    /\ UNCHANGED <<called, country, city, pageTripData, submitted, countryFlag, submissions,
                   countryValidation, countryAnswer, cityCall, cityLookup>>
    /\ UNCHANGED <<pageTripType, pageTripDate, weatherData, weatherLoading, weatherError,
                   pendingEffect, weatherPosts, saving, saveError, saveSuccess, tripSaved,
                   savePosts, confirmed>>
    /\ UNCHANGED outsidePage

\* TripPlan.js 235-248: the city lookup is answered
CityAnswer ==
    /\ hpc = "validateCity"
    /\ \E answer \in Given.geocoder :
          /\ cityAnswer' = answer
          /\ cityValidation' = validateCity(answer, cityLookup.countrycodes)
          /\ IF ~validateCity(answer, cityLookup.countrycodes).isValid
             THEN /\ Abort(cityError(called.city, called.country))
                  /\ UNCHANGED <<planPosts, planBody>>
             ELSE /\ planPosts' = planPosts + 1
                  /\ planBody' = PlanBody
                  /\ hpc' = "awaitPlan"
                  /\ UNCHANGED <<error, loading>>
    /\ UNCHANGED <<called, country, city, pageTripData, submitted, countryFlag, submissions,
                   countryValidation, countryAnswer, cityCall, cityLookup>>
    /\ UNCHANGED <<pageTripType, pageTripDate, weatherData, weatherLoading, weatherError,
                   pendingEffect, weatherPosts, saving, saveError, saveSuccess, tripSaved,
                   savePosts, confirmed>>
    /\ UNCHANGED outsidePage

\* TripPlan.js 422-437: fetchWeatherForecast up to its request
FetchWeatherForecast(shown) ==
    IF Falsy(Str(shown.city)) \/ Falsy(Str(shown.country)) \/ Falsy(Str(shown.tripDate))
    THEN /\ weatherError' = "Trip information is required to fetch weather forecast."
         /\ UNCHANGED <<weatherData, weatherLoading, weatherPosts>>
    ELSE /\ weatherLoading' = TRUE
         /\ weatherError' = ""
         /\ weatherData' = Null
         /\ weatherPosts' = weatherPosts (+) SetToBag(
                {[city |-> shown.city, country |-> shown.country, tripDate |-> shown.tripDate]})

\* TripPlan.js 71-76: the effect that follows a change of the submitted
\* values or of tripData
WeatherEffect(shown, trip) ==
    IF ~Falsy(Str(shown.city)) /\ ~Falsy(Str(shown.country))
            /\ ~Falsy(Str(shown.tripDate)) /\ trip # Null
    THEN FetchWeatherForecast(shown)
    ELSE UNCHANGED <<weatherData, weatherLoading, weatherError, weatherPosts>>

\* TripPlan.js 71-76 as React runs it: after the render of a new trip, with
\* the submitted values and the trip of that render
UseEffect ==
    /\ pendingEffect # Null
    /\ WeatherEffect(pendingEffect.shown, pendingEffect.trip)
    /\ pendingEffect' = Null
    /\ UNCHANGED pageVars
    /\ UNCHANGED <<pageTripType, pageTripDate, planBody, saving, saveError, saveSuccess,
                   tripSaved, savePosts, confirmed>>
    /\ UNCHANGED outsidePage

\* TripPlan.js 243-274 and 346-358: the server has answered.  The setters
\* of 252-258 queue the trip and the submitted values, whose render
\* schedules the effect of 71-76.  Reading trip.days[0].cities of an
\* itinerary without days throws a TypeError, which the catch reports as a
\* failure of the connection.
PlanAnswer ==
    /\ hpc = "awaitPlan"
    /\ \E answer \in PlanAnswers :
          IF answer.kind = "throws"
          THEN /\ Abort(IF "response" \in DOMAIN answer
                        THEN answer.response.error ELSE connectionError)
               /\ UNCHANGED <<pageTripData, submitted, pendingEffect>>
          ELSE IF ~answer.data.success
          THEN /\ Abort(generateError)
               /\ UNCHANGED <<pageTripData, submitted, pendingEffect>>
          ELSE /\ pageTripData' = answer.data.tripData
               /\ submitted' = PlanBody
               /\ pendingEffect' = [shown |-> PlanBody, trip |-> answer.data.tripData]
               /\ IF Len(answer.data.tripData.days) = 0
                  THEN Abort(connectionError)
                  ELSE /\ hpc' = "buildRoutes"
                       /\ UNCHANGED <<error, loading>>
    /\ UNCHANGED <<called, country, city, countryFlag, submissions, countryValidation,
                   cityValidation, countryAnswer, cityCall, cityLookup, cityAnswer,
                   planPosts>>
    /\ UNCHANGED <<pageTripType, pageTripDate, planBody, weatherData, weatherLoading,
                   weatherError, weatherPosts, saving, saveError, saveSuccess, tripSaved,
                   savePosts, confirmed>>
    /\ UNCHANGED outsidePage

\* TripPlan.js 306-341 and 175-207: the routes of all segments are fetched
\* one after the other (fetchORSRoute never rejects), then the flag is asked
BuildRoutes ==
    /\ hpc = "buildRoutes"
    /\ hpc' = "awaitFlag"
    /\ UNCHANGED <<called, country, city, error, loading, pageTripData, submitted, countryFlag,
                   countryValidation, cityValidation, submissions, countryAnswer,
                   cityCall, cityLookup, cityAnswer, planPosts>>
    /\ UNCHANGED shownVars
    /\ UNCHANGED outsidePage

\* TripPlan.js 343-345, 356-358 and 80-94: fetchCountryFlag gives a URL or null
FlagAnswer ==
    /\ hpc = "awaitFlag"
    /\ \E flag \in {Null, Str("flag.jpg")} : countryFlag' = flag
    /\ loading' = FALSE
    /\ hpc' = "form"
    /\ UNCHANGED <<called, country, city, error, pageTripData, submitted, countryValidation,
                   cityValidation, submissions, countryAnswer, cityCall, cityLookup,
                   cityAnswer, planPosts>>
    /\ UNCHANGED shownVars
    /\ UNCHANGED outsidePage

\* What awaiting axios.post of /api/trip/weather can give (TripPlan.js 433):
\* the weather of the place and date asked for, a 2xx body without success,
\* a rejection with the server's error, or a rejection without response
WeatherAnswers(body) ==
    {[kind |-> "response",
      data |-> [success |-> TRUE,
                weather |-> [city |-> body.city, country |-> body.country,
                             date |-> body.tripDate]]],
     [kind |-> "response", data |-> [success |-> FALSE]],
     [kind |-> "throws", response |-> [error |-> "City not found or invalid location"]],
     [kind |-> "throws"]}

\* TripPlan.js 439-453: a POST of /api/trip/weather is answered
WeatherAnswer ==
    /\ \E body \in BagToSet(weatherPosts) :
          /\ weatherPosts' = weatherPosts (-) SetToBag({body})
          /\ \E answer \in WeatherAnswers(body) :
                IF answer.kind = "throws"
                THEN /\ weatherError' = IF "response" \in DOMAIN answer
                                        THEN answer.response.error
                                        ELSE "Failed to fetch weather forecast. Please try again."
                     /\ UNCHANGED weatherData
                ELSE IF answer.data.success
                THEN /\ weatherData' = answer.data.weather
                     /\ UNCHANGED weatherError
                ELSE /\ weatherError' = "Failed to fetch weather data."
                     /\ UNCHANGED weatherData
    /\ weatherLoading' = FALSE
    /\ UNCHANGED pageVars
    /\ UNCHANGED <<pageTripType, pageTripDate, planBody, pendingEffect, saving, saveError,
                   saveSuccess, tripSaved, savePosts, confirmed>>
    /\ UNCHANGED outsidePage

\* new Date(submittedTripDate): midnight of the day the text names
PageDate(date) ==
    CASE date = "2026-11-01" -> [day |-> 1]
      [] date = "2026-11-02" -> [day |-> 2]

\* TripPlan.js 579-581: Math.ceil((tripDateObj - today) / (1000 * 60 * 60 * 24))
daysDiff(tripDate, today) ==
    LET hours == PageDate(tripDate).day * 24 - (today.day * 24 + today.hour)
    IN  -((-hours) \div 24)

\* TripPlan.js 749-761: the placeholder's button, rendered with the trip
\* while there is no weather data, no loading and no error, is clicked
GetWeatherForecast ==
    /\ pageTripData # Null
    /\ weatherData = Null /\ ~weatherLoading /\ weatherError = ""
    /\ FetchWeatherForecast(submitted)
    /\ UNCHANGED pageVars
    /\ UNCHANGED <<pageTripType, pageTripDate, planBody, pendingEffect, saving, saveError,
                   saveSuccess, tripSaved, savePosts, confirmed>>
    /\ UNCHANGED outsidePage

\* TripPlan.js 583-601: the Retry button, rendered with the trip when there
\* is an error and the trip date has passed, and enabled unless loading, is
\* clicked
RetryWeather ==
    /\ pageTripData # Null
    /\ weatherError # "" /\ ~weatherLoading
    /\ \E today \in Given.today : daysDiff(submitted.tripDate, today) < 0
    /\ FetchWeatherForecast(submitted)
    /\ UNCHANGED pageVars
    /\ UNCHANGED <<pageTripType, pageTripDate, planBody, pendingEffect, saving, saveError,
                   saveSuccess, tripSaved, savePosts, confirmed>>
    /\ UNCHANGED outsidePage

\* TripPlan.js 360-394 and 839-846: the save button, shown with the trip and
\* enabled unless saving or tripSaved, is clicked; localStorage may or may
\* not hold a token
HandleSaveTrip ==
    /\ pageTripData # Null
    /\ ~(saving \/ tripSaved)
    /\ saveSuccess' = ""
    /\ \E token \in {Null, Str("token")} :
          IF token = Null
          THEN /\ saveError' = "You must be logged in to save trips."
               /\ UNCHANGED <<saving, savePosts>>
          ELSE /\ saveError' = ""
               /\ saving' = TRUE
               /\ savePosts' = savePosts \cup
                      {[country |-> submitted.country, city |-> submitted.city,
                        tripType |-> submitted.tripType, tripDate |-> submitted.tripDate,
                        countryFlag |-> countryFlag, tripData |-> pageTripData]}
    /\ UNCHANGED pageVars
    /\ UNCHANGED <<pageTripType, pageTripDate, planBody, weatherData, weatherLoading,
                   weatherError, pendingEffect, weatherPosts, tripSaved, confirmed>>
    /\ UNCHANGED outsidePage

\* What awaiting axios.post of /api/trip/save can give (TripPlan.js 390): a
\* 2xx body with or without success, a rejection with one of the server's
\* errors (trip.js 59, 65, 271), or a rejection without response
SaveAnswers ==
    {[kind |-> "response", data |-> [success |-> ok]] : ok \in BOOLEAN}
        \cup {[kind |-> "throws", response |-> [error |-> e]] :
                e \in {"Invalid token structure", "Invalid token", "Failed to save trip"}}
        \cup {[kind |-> "throws"]}

\* TripPlan.js 407: errorMessage.includes('Invalid token structure'), over
\* the errors of SaveAnswers
includes(errorMessage, part) == errorMessage = part

\* TripPlan.js 396-418: a POST of /api/trip/save is answered
SaveAnswer ==
    /\ \E body \in savePosts :
          /\ savePosts' = savePosts \ {body}
          /\ \E answer \in SaveAnswers :
                IF answer.kind = "response"
                THEN IF answer.data.success
                     THEN /\ saveSuccess' = "Trip saved successfully!"
                          /\ tripSaved' = TRUE
                          /\ confirmed' = confirmed \cup {body}
                          /\ UNCHANGED saveError
                     ELSE UNCHANGED <<saveSuccess, tripSaved, confirmed, saveError>>
                ELSE /\ saveError' =
                          IF "response" \notin DOMAIN answer
                          THEN "Failed to save trip. Please try again."
                          ELSE IF includes(answer.response.error, "Invalid token structure")
                          THEN "Your session has expired. Please log out and log back in, then try saving again."
                          ELSE answer.response.error
                     /\ UNCHANGED <<saveSuccess, tripSaved, confirmed>>
    /\ saving' = FALSE
    /\ UNCHANGED pageVars
    /\ UNCHANGED <<pageTripType, pageTripDate, planBody, weatherData, weatherLoading,
                   weatherError, pendingEffect, weatherPosts>>
    /\ UNCHANGED outsidePage

InitPage == PlanIdle /\ PageMounted /\ NothingValidated /\ NoTrips /\ NoUsers /\ Quiet

NextPage ==
    \/ SetCountry
    \/ SetCity
    \/ SetTripType
    \/ SetTripDate
    \/ Submit
    \/ CountryAnswer
    \/ CityAnswer
    \/ PlanAnswer
    \/ UseEffect
    \/ BuildRoutes
    \/ FlagAnswer

SpecPage == InitPage /\ [][NextPage]_vars

\* The page with its weather and its saving, among French cities
InitShown ==
    /\ PlanIdle /\ NothingValidated /\ NoTrips /\ NoUsers /\ Quiet
    /\ PageState
    /\ inputs = "french"

NextShown ==
    \/ NextPage
    \/ WeatherAnswer
    \/ GetWeatherForecast
    \/ RetryWeather
    \/ HandleSaveTrip
    \/ SaveAnswer

SpecShown == InitShown /\ [][NextShown]_vars

(***************************************************************************)
(* The validator called twice on one candidate, against an oracle that     *)
(* gives the same answer whenever it is asked for the same start, end and  *)
(* profile (validateORSRoutesAndDistances, trip.js 385-459).               *)
(***************************************************************************)
\* trip.js 404-407: the start, the end and the profile the request is made of
SegmentKey ==
    LET cities == tripData.days[vDay].cities
    IN  <<cities[vI + 1].coordinates, cities[vI + 2].coordinates,
          Profile(request.tripType)>>

\* trip.js 404-448 with a stable oracle: a request it has answered before
\* gets the same answer again
OrsCallStable ==
    /\ pc = "OrsCall"
    /\ \E answer \in Given.oracle[Profile(request.tripType)] :
          /\ SegmentKey \in DOMAIN oracle => answer = oracle[SegmentKey]
          /\ oracle' = IF SegmentKey \in DOMAIN oracle THEN oracle
                        ELSE oracle @@ (SegmentKey :> answer)
          /\ OrsAnswered(answer)
    /\ UNCHANGED <<pageVars, shownVars, inputs, firstValidation, tripVars, authVars, dashVars,
                   weatherVars, pairVars>>

\* The validator is called again with the same candidate and trip type
Revalidate ==
    /\ pc = "AfterValidate"
    /\ validatorCalls = 1
    /\ firstValidation' = validation
    /\ validation' = Undefined
    /\ pc' = "Validate"
    /\ UNCHANGED <<request, attempt, lastRawResponse, tripData, foundValid, orsData,
                   locals, res, observed, pageVars, shownVars, inputs, oracle, tripVars, authVars,
                   dashVars, weatherVars, pairVars>>

\* A candidate of the model and a trip type, at the call of the validator
InitStable ==
    /\ pc = "Validate"
    /\ request \in [complete : {TRUE}, tripType : {"bike", "trek"}]
    /\ tripData \in Candidates
    /\ attempt = 0
    /\ lastRawResponse = Str(Bare(tripData))
    /\ foundValid = FALSE
    /\ orsData = Null
    /\ validation = Undefined
    /\ vDay = 0
    /\ vI = 0
    /\ dayDistance = 0
    /\ dayDuration = 0
    /\ orsSegments = <<>>
    /\ allORSData = <<>>
    /\ res = NoResponse
    /\ groqCalls = 1
    /\ orsCalls = 0
    /\ validatorCalls = 0
    /\ parseFailures = 0
    /\ groqThrows = 0
    /\ lastModelReply = Str(Bare(tripData))
    /\ atAccept = Null
    /\ orsFailure = "none"
    /\ outstanding = {}
    /\ PageMounted
    /\ NothingValidated
    /\ NoTrips
    /\ NoUsers
    /\ Quiet

NextStable ==
    \/ ValidateEnter
    \/ DayLoop
    \/ OrsRequest
    \/ OrsCallStable
    \/ DayCheck
    \/ Revalidate

SpecStable == InitStable /\ [][NextStable]_vars

(***************************************************************************)
(* The stored trips and the routes that write and read them                *)
(* (src/server/routes/trip.js: authenticateToken 39-87, POST /save         *)
(* 183-276, GET /history 294-316, GET /trip/:tripId 338-365;               *)
(* src/server/models/Trip.js).  A handler runs to its await, where it      *)
(* leaves its operation with the database and returns to the event loop;   *)
(* the database performs the operation, or fails; the handler then         *)
(* responds.  The handlers of other requests run in between.               *)
(***************************************************************************)
MaxTrips == 2      \* documents built by POST /save
MaxInFlight == 2   \* requests that await the database at a time

Emails == {"alice@x.com", "bob@x.com"}

\* The Authorization header: absent, a token whose verification fails, a
\* verified token without email, and the tokens POST /login signs
Tokens ==
    {Undefined, [signed |-> FALSE], [signed |-> TRUE, payload |-> [userId |-> "u0"]]}
        \cup {[signed |-> TRUE, payload |-> [userId |-> "id of " \o e, email |-> e]] :
                e \in Emails}

\* trip.js 39-87: the response that ends the request, or the user put on req
authenticateToken(token) ==
    IF token = Undefined
    THEN [next |-> FALSE, res |-> [status |-> 401, error |-> "Access token required"]]
    ELSE IF ~token.signed
    THEN [next |-> FALSE, res |-> [status |-> 403, error |-> "Invalid token"]]
    ELSE IF "userId" \notin DOMAIN token.payload \/ "email" \notin DOMAIN token.payload
    THEN [next |-> FALSE, res |-> [status |-> 403, error |-> "Invalid token structure"]]
    ELSE [next |-> TRUE,
          user |-> [userId |-> token.payload.userId, email |-> token.payload.email]]

\* trip.js 241: the email, Date.now() and Math.random(), which give every
\* document an id of its own
TripId(email, stamp) == email \o "_" \o ToString(stamp)

TripIds == {TripId(e, n) : e \in Emails, n \in 1..MaxTrips}

\* The bodies of POST /save: with all required fields, the city as it is or
\* between blanks, or without tripData
SaveBodies ==
    {[country |-> "France", city |-> "Lyon", tripType |-> "trek", complete |-> c] :
        c \in BOOLEAN}
        \cup {[country |-> "France", city |-> " Lyon ", tripType |-> "trek",
               complete |-> TRUE]}

\* Trip.js 47 and 54, trim: true, over the texts of SaveBodies
trim(text) == IF text = " Lyon " THEN "Lyon" ELSE text

\* trip.js 244-254 and Trip.js 118-122: the document, with the createdAt
\* that Date.now gives when it is built
NewTrip(owner, tripId, body, now) ==
    [userId |-> owner.userId, userEmail |-> owner.email, tripId |-> tripId,
     country |-> trim(body.country), city |-> trim(body.city),
     tripType |-> body.tripType, createdAt |-> now]

\* Trip.findOne({ tripId }): the lookup by id alone
findOneByIdOnly(tripId, email) ==
    {k \in 1..Len(trips) : trips[k].tripId = tripId}

\* trip.js 344: Trip.findOne({ tripId, userEmail: email }), as the places
\* of the matching documents (at most one: tripId is unique, Trip.js 39)
findOne(tripId, email) ==
    {k \in 1..Len(trips) : trips[k].tripId = tripId /\ trips[k].userEmail = email}

RECURSIVE find(_, _)
\* trip.js 300-302: Trip.find({ userEmail: email }).sort({ createdAt: -1 })
\* .select(...) over the documents created up to n, the latest first
find(email, n) ==
    IF n = 0 THEN <<>>
    ELSE LET at == {k \in 1..Len(trips) :
                        trips[k].createdAt = n /\ trips[k].userEmail = email}
             doc == trips[CHOOSE k \in at : TRUE]
         IN  (IF at = {} THEN <<>>
              ELSE <<[tripId |-> doc.tripId, country |-> doc.country, city |-> doc.city,
                      tripType |-> doc.tripType, createdAt |-> doc.createdAt]>>)
                 \o find(email, n - 1)

outsideTrips ==
    <<planVars, pageVars, shownVars, inputs, stableVars, authVars, dashVars, weatherVars, pairVars>>

\* A handler leaves its operation with the database
Awaits(frame) ==
    /\ BagCardinality(inflight) < MaxInFlight
    /\ inflight' = inflight (+) SetToBag({frame})
    /\ UNCHANGED <<tripsReq, tripsRes>>

\* The database has performed or refused the operation of a handler
Settles(frame, settled) ==
    inflight' = (inflight (-) SetToBag({frame})) (+) SetToBag({settled})

\* A handler sends its response
Responds(frame, response) ==
    /\ inflight' = inflight (-) SetToBag({frame})
    /\ tripsReq' = [r \in DOMAIN frame \ {"db", "newTrip", "found"} |-> frame[r]]
                      @@ [dbOk |-> frame.db = "ok"]
    /\ tripsRes' = response

\* The handlers of a route that await the database, or that it has answered
Awaiting(route) ==
    {f \in BagToSet(inflight) : f.route = route /\ f.db = "pending"}
Settled(route) ==
    {f \in BagToSet(inflight) : f.route = route /\ f.db # "pending"}

\* trip.js 183-255: POST /save up to await newTrip.save().  (After
\* authenticateToken userId and email are both set, so that the fallback of
\* 195-224 is never entered.)
Save ==
    /\ \E token \in Tokens :
          LET auth == authenticateToken(token)
          IN  IF ~auth.next
              THEN /\ tripsReq' = [route |-> "save", token |-> token, dbOk |-> TRUE]
                   /\ tripsRes' = auth.res
                   /\ UNCHANGED <<inflight, saves>>
              ELSE \E body \in SaveBodies :
                      IF ~body.complete
                      THEN /\ tripsReq' = [route |-> "save", token |-> token, dbOk |-> TRUE]
                           /\ tripsRes' = [status |-> 400,
                                           error |-> "All required fields must be provided"]
                           /\ UNCHANGED <<inflight, saves>>
                      ELSE /\ saves < MaxTrips
                           /\ saves' = saves + 1
                           /\ Awaits([route |-> "save", token |-> token, db |-> "pending",
                                      newTrip |-> NewTrip(auth.user,
                                                          TripId(auth.user.email, saves + 1),
                                                          body, saves + 1)])
    /\ UNCHANGED trips
    /\ UNCHANGED outsideTrips

\* trip.js 255 and Trip.js 36-41: the database stores the document, unless
\* it fails or holds a document with this tripId
SaveInsert ==
    /\ \E frame \in Awaiting("save"), dbOk \in BOOLEAN :
          IF dbOk /\ findOneByIdOnly(frame.newTrip.tripId, frame.newTrip.userEmail) = {}
          THEN /\ trips' = Append(trips, frame.newTrip)
               /\ Settles(frame, [frame EXCEPT !.db = "ok"])
          ELSE /\ trips' = trips
               /\ Settles(frame, [frame EXCEPT !.db = "error"])
    /\ UNCHANGED <<tripsReq, tripsRes, saves>>
    /\ UNCHANGED outsideTrips

\* trip.js 256-275: the handler of POST /save responds
SaveRespond ==
    /\ \E frame \in Settled("save") :
          Responds(frame,
                   IF frame.db = "ok"
                   THEN [status |-> 200, success |-> TRUE, tripId |-> frame.newTrip.tripId]
                   ELSE [status |-> 500, error |-> "Failed to save trip"])
    /\ UNCHANGED <<trips, saves>>
    /\ UNCHANGED outsideTrips

\* trip.js 294-302: GET /history up to await Trip.find(...)
History ==
    /\ \E token \in Tokens :
          LET auth == authenticateToken(token)
          IN  IF ~auth.next
              THEN /\ tripsReq' = [route |-> "history", token |-> token, dbOk |-> TRUE]
                   /\ tripsRes' = auth.res
                   /\ UNCHANGED inflight
              ELSE Awaits([route |-> "history", token |-> token, db |-> "pending"])
    /\ UNCHANGED <<trips, saves>>
    /\ UNCHANGED outsideTrips

\* trip.js 300-302: the database runs the query, or fails
HistoryFind ==
    /\ \E frame \in Awaiting("history"), dbOk \in BOOLEAN :
          Settles(frame,
                  IF dbOk
                  THEN [frame EXCEPT !.db = "ok"]
                          @@ [found |-> find(frame.token.payload.email, saves)]
                  ELSE [frame EXCEPT !.db = "error"])
    /\ UNCHANGED <<trips, tripsReq, tripsRes, saves>>
    /\ UNCHANGED outsideTrips

\* trip.js 304-315: the handler of GET /history responds
HistoryRespond ==
    /\ \E frame \in Settled("history") :
          Responds(frame,
                   IF frame.db = "ok"
                   THEN [status |-> 200, success |-> TRUE, trips |-> frame.found]
                   ELSE [status |-> 500, error |-> "Failed to fetch trip history"])
    /\ UNCHANGED <<trips, saves>>
    /\ UNCHANGED outsideTrips

\* trip.js 338-344: GET /trip/:tripId up to await Trip.findOne(...)
GetTrip ==
    /\ \E token \in Tokens :
          LET auth == authenticateToken(token)
          IN  IF ~auth.next
              THEN /\ tripsReq' = [route |-> "trip", token |-> token, dbOk |-> TRUE]
                   /\ tripsRes' = auth.res
                   /\ UNCHANGED inflight
              ELSE \E tripId \in TripIds :
                      Awaits([route |-> "trip", token |-> token, db |-> "pending",
                              tripId |-> tripId])
    /\ UNCHANGED <<trips, saves>>
    /\ UNCHANGED outsideTrips

\* trip.js 344: the database looks the document up, or fails
GetTripFindOne ==
    /\ \E frame \in Awaiting("trip"), dbOk \in BOOLEAN :
          LET at == findOne(frame.tripId, frame.token.payload.email)
          IN  Settles(frame,
                      IF dbOk
                      THEN [frame EXCEPT !.db = "ok"]
                              @@ [found |-> IF at = {} THEN Null
                                            ELSE trips[CHOOSE k \in at : TRUE]]
                      ELSE [frame EXCEPT !.db = "error"])
    /\ UNCHANGED <<trips, tripsReq, tripsRes, saves>>
    /\ UNCHANGED outsideTrips

\* trip.js 346-364: the handler of GET /trip/:tripId responds
GetTripRespond ==
    /\ \E frame \in Settled("trip") :
          Responds(frame,
                   IF frame.db = "error"
                   THEN [status |-> 500, error |-> "Failed to fetch trip"]
                   ELSE IF frame.found = Null
                   THEN [status |-> 404, error |-> "Trip not found"]
                   ELSE [status |-> 200, success |-> TRUE, trip |-> frame.found])
    /\ UNCHANGED <<trips, saves>>
    /\ UNCHANGED outsideTrips

InitTrips == PlanIdle /\ PageMounted /\ NothingValidated /\ NoTrips /\ NoUsers /\ Quiet

NextTrips ==
    \/ Save
    \/ SaveInsert
    \/ SaveRespond
    \/ History
    \/ HistoryFind
    \/ HistoryRespond
    \/ GetTrip
    \/ GetTripFindOne
    \/ GetTripRespond

SpecTrips == InitTrips /\ [][NextTrips]_vars

(***************************************************************************)
(* Registration (src/server/routes/auth.js 27-79, POST /register) over the *)
(* users collection (src/server/models/User.js 3-15).  Requests run        *)
(* concurrently: each is at its lookup, at its save, or answered.  The     *)
(* collection has the unique index on email that the schema declares, so   *)
(* that an insert of an email already stored is refused by the database.   *)
(***************************************************************************)
\* The addresses a request may carry
RawEmails == {"alice@x.com", "Alice@X.com", "bob@x.com"}

\* String.prototype.toLowerCase left out: the address is kept as typed
toLowerCaseKept(email) == email

\* String.prototype.toLowerCase on the addresses of the model
toLowerCase(email) ==
    CASE email = "Alice@X.com" -> "alice@x.com"
      [] OTHER -> email

outsideAuth ==
    <<planVars, pageVars, shownVars, inputs, stableVars, tripVars, dashVars, weatherVars, pairVars>>

\* auth.js 27-35: the request arrives and the handler leaves its lookup
\* with the database
Register(r) ==
    /\ reg[r].at = "idle"
    /\ \E email \in RawEmails :
          reg' = [reg EXCEPT ![r] = [at |-> "findOne", email |-> email,
                                     normalizedEmail |-> toLowerCase(email),
                                     db |-> "pending"]]
    /\ UNCHANGED users
    /\ UNCHANGED outsideAuth

\* auth.js 35: the database performs User.findOne({ email: normalizedEmail })
\* on the users it holds then, or fails
FindPerformed(r) ==
    /\ reg[r].at = "findOne" /\ reg[r].db = "pending"
    /\ \E dbOk \in BOOLEAN :
          reg' = [reg EXCEPT ![r].db =
                    IF ~dbOk THEN "error"
                    ELSE IF \E u \in users : u.email = reg[r].normalizedEmail
                    THEN "found" ELSE "none"]
    /\ UNCHANGED users
    /\ UNCHANGED outsideAuth

\* What a request keeps from one await to the next
Carried(registration) ==
    [at |-> registration.at, email |-> registration.email,
     normalizedEmail |-> registration.normalizedEmail]

\* auth.js 35-45 and 74-79: the handler resumes with what the lookup gave;
\* with no such user it calls bcrypt.hash and returns to the event loop
FindAnswered(r) ==
    /\ reg[r].at = "findOne" /\ reg[r].db # "pending"
    /\ reg' = [reg EXCEPT ![r] =
                 IF reg[r].db = "error"
                 THEN [Carried(@) EXCEPT !.at = "done"] @@ [status |-> 500]
                 ELSE IF reg[r].db = "found"
                 THEN [Carried(@) EXCEPT !.at = "done"] @@ [status |-> 400]
                 ELSE [Carried(@) EXCEPT !.at = "hashing"]]
    /\ UNCHANGED users
    /\ UNCHANGED outsideAuth

\* auth.js 45-53: bcrypt.hash resolves (the password is a string); the
\* handler builds the user and leaves its save with the database
HashResolved(r) ==
    /\ reg[r].at = "hashing"
    /\ reg' = [reg EXCEPT ![r] = [Carried(@) EXCEPT !.at = "save"] @@ [db |-> "pending"]]
    /\ UNCHANGED users
    /\ UNCHANGED outsideAuth

\* auth.js 53 and User.js 5, 9-14: the database performs the save; the
\* pre-save hook lower-cases the address, the insert is refused when the
\* address is stored already
SavePerformed(r) ==
    /\ reg[r].at = "save" /\ reg[r].db = "pending"
    /\ \E dbOk \in BOOLEAN :
          LET email == toLowerCase(reg[r].normalizedEmail)
          IN  IF ~dbOk \/ \E u \in users : u.email = email
              THEN /\ reg' = [reg EXCEPT ![r].db = "error"]
                   /\ users' = users
              ELSE /\ users' = users \cup {[id |-> r, email |-> email]}
                   /\ reg' = [reg EXCEPT ![r].db = "ok"]
    /\ UNCHANGED outsideAuth

\* auth.js 55-79: the handler resumes from await user.save() and responds
SaveAnswered(r) ==
    /\ reg[r].at = "save" /\ reg[r].db # "pending"
    /\ reg' = [reg EXCEPT ![r] =
                 [Carried(@) EXCEPT !.at = "done"]
                    @@ [status |-> IF reg[r].db = "ok" THEN 201 ELSE 500]]
    /\ UNCHANGED users
    /\ UNCHANGED outsideAuth

InitAuth == PlanIdle /\ PageMounted /\ NothingValidated /\ NoTrips /\ NoUsers /\ Quiet

NextAuth ==
    \/ \E r \in Registrations : Register(r)
    \/ \E r \in Registrations : FindPerformed(r)
    \/ \E r \in Registrations : FindAnswered(r)
    \/ \E r \in Registrations : HashResolved(r)
    \/ \E r \in Registrations : SavePerformed(r)
    \/ \E r \in Registrations : SaveAnswered(r)

SpecAuth == InitAuth /\ [][NextAuth]_vars

(***************************************************************************)
(* The dashboard (src/client/src/pages/Dashboard.jsx 53-91) and the two    *)
(* routes it reads: GET /api/me (src/server/routes/auth.js 167-190, behind *)
(* src/server/middleware/auth.js) and GET /api/trip/history (trip.js       *)
(* 294-316, behind authenticateToken); the navigation bar and the routes   *)
(* of App.js, by which the dashboard leaves the screen and is mounted      *)
(* again, the forms of the login and the register page, which store a      *)
(* token, the trip-history page and the page of a trip with the requests   *)
(* they load and the buttons that send the router on.  The database, the   *)
(* network and the user are the environment.  The trip-plan page is its    *)
(* route only.                                                             *)
(***************************************************************************)
\* What localStorage holds under 'token' when the dashboard is mounted:
\* nothing, a token whose verification fails (forged or expired), a verified
\* token issued before userId and email were put in the payload, or a
\* verified token of a user (auth.js 127-131)
StoredTokens ==
    {Null, [signed |-> FALSE], [signed |-> TRUE, payload |-> [id |-> "u0"]]}
        \cup {[signed |-> TRUE,
               payload |-> [id |-> "id of " \o e, userId |-> "id of " \o e, email |-> e]] :
                e \in Emails}

\* The trips that may be stored when the dashboard is mounted
StoredTrips ==
    LET trip(e, n, at) == [tripId |-> TripId(e, n), userId |-> "id of " \o e,
                           userEmail |-> e, country |-> "France", city |-> "Lyon",
                           tripType |-> "trek", createdAt |-> at]
    IN  {<<>>, <<trip("alice@x.com", 1, 1)>>, <<trip("bob@x.com", 1, 1)>>,
         <<trip("alice@x.com", 1, 1), trip("bob@x.com", 1, 2), trip("alice@x.com", 2, 3)>>}

\* middleware/auth.js 5-24 on the Authorization header 'Bearer <token>':
\* the response that ends the request, or the id put on req.  The token is
\* verified with process.env.JWT_SECRET alone: without it jwt.verify throws
\* for every token, also for those POST /login has signed with its fallback
\* (auth.js 124)
authMiddleware(authHeader, secret) ==
    IF authHeader = Undefined
    THEN [next |-> FALSE, res |-> [status |-> 401, error |-> "No token provided"]]
    ELSE IF authHeader.token = Undefined
    THEN [next |-> FALSE, res |-> [status |-> 401, error |-> "Invalid token format"]]
    ELSE IF secret = Undefined \/ ~authHeader.token.signed
    THEN [next |-> FALSE, res |-> [status |-> 403, error |-> "Invalid or expired token"]]
    ELSE [next |-> TRUE, userId |-> authHeader.token.payload.id]

\* auth.js 167-190: the responses GET /api/me can send, by what
\* User.findById gives (the user, null, or an exception)
MeResponses(authHeader) ==
    LET auth == authMiddleware(authHeader, jwtSecret)
    IN  IF ~auth.next THEN {auth.res}
        ELSE {[status |-> 200, data |-> [id |-> auth.userId, name |-> "name of " \o auth.userId]],
              [status |-> 404, error |-> "User not found"],
              [status |-> 500, error |-> "Server error"]}

\* trip.js 294-316: the responses GET /api/trip/history can send, by what
\* Trip.find gives (the trips, or an exception); authenticateToken verifies
\* with the secret or the fallback POST /login signs with (trip.js 51)
HistoryResponses(authHeader) ==
    LET auth == authenticateToken(IF authHeader = Undefined THEN Undefined
                                  ELSE authHeader.token)
    IN  IF ~auth.next THEN {auth.res}
        ELSE {[status |-> 200,
               data |-> [success |-> TRUE, trips |-> find(auth.user.email, saves)]],
              [status |-> 500, error |-> "Failed to fetch trip history"]}

\* axios.get: fulfilled by a 2xx response, rejected with the response by any
\* other, rejected without a response when no response arrives
Pending(token) == [state |-> "pending", headers |-> [token |-> token]]
Fulfilled(response) == [state |-> "fulfilled", value |-> response]
Rejected(reason) == [state |-> "rejected", reason |-> reason]
NetworkError == [message |-> "Network Error"]
Settle(response) ==
    IF response.status \in 200..299 THEN Fulfilled(response)
    ELSE Rejected([response |-> response])

dashFailed == "Failed to load dashboard data. Please try again."

MaxAbandoned == 1   \* dashboards left while their requests are in flight
MaxLogins == 1      \* submissions of the login and register forms in flight

\* The dashboard is on the screen: its state exists and its setters act
Mounted == dashRoute = "/dashboard"

\* React runs the pending effects before it handles a click
EffectsFlushed ==
    /\ dpc # "mount"
    /\ historyPage.at # "mount"
    /\ tripPage.at # "mount"
    /\ ~appPending

\* Dashboard.jsx 128-143: the dashboard shows its content, not its loading
\* or its error
Rendered == Mounted /\ EffectsFlushed /\ ~dashLoading /\ dashError = ""

\* App.js 184-185: the pages outside PrivateRoute
PublicPages == {"/register", "/login"}

\* App.js 193: the pages of the trips
TripRoutes == {"/trip/" \o id : id \in TripIds}

\* App.js 188-193: the pages inside PrivateRoute
PrivatePages == {"/trip-plan", "/trip-history", "/dashboard"} \cup TripRoutes

\* useParams of TripView.js 71: the tripId of a route of App.js 193
TripOf(route) == CHOOSE id \in TripIds : route = "/trip/" \o id

\* PrivateRoute.js 24-31 around every page but the public ones
PrivateRoute(to, token) == IF token = Null THEN "/login" ELSE to

\* Login.jsx 16-21 and Register.jsx 17-22: a public page that finds a token
\* goes to the dashboard
RedirectIfToken(to, token) == IF token # Null THEN "/dashboard" ELSE to

\* The page the router comes to rest on when it is sent to a route; a
\* route that App.js 182-198 does not name shows no page
Landing(to, token) ==
    IF to \in PublicPages THEN RedirectIfToken(to, token)
    ELSE IF to \in PrivatePages THEN PrivateRoute(to, token)
    ELSE to

\* The page shown is taken off the screen and a page is mounted, unless the
\* router is sent to the route it shows and rests there
Remounts(to, token) == ~(to = dashRoute /\ Landing(to, token) = dashRoute)

IsPending(promise) == promise # Undefined /\ promise.state = "pending"

\* A promise no callback will read: what is left is whether it is settled
Strip(promise) == IF IsPending(promise) THEN promise ELSE [state |-> promise.state]

\* What the handler that runs has made of the requests in flight
Here ==
    [stale |-> stale, logins |-> logins, me |-> meReply, history |-> historyReply,
     dpc |-> dpc]

\* The requests a dashboard leaves behind when it is taken off the screen
Leaving(now) ==
    IF IsPending(now.me) \/ IsPending(now.history)
    THEN SetToBag({[me |-> Strip(now.me), history |-> Strip(now.history), dpc |-> now.dpc]})
    ELSE EmptyBag

\* Dashboard.jsx 31-39: the state of a dashboard that is mounted, which is
\* also what is left of one that is not
Fresh(position) ==
    /\ dpc' = position
    /\ meReply' = Undefined
    /\ historyReply' = Undefined
    /\ user' = Null
    /\ lastTrip' = Null
    /\ dashLoading' = TRUE
    /\ dashError' = ""
    /\ caught' = Undefined

\* The router is sent to a route (navigate, Link, or the render that follows
\* a change of the session), App.js 182-198.  Unless it is sent to the route
\* it shows and rests there, the page shown is taken off the screen and the
\* page it comes to rest on is mounted, also when that is the same page: a
\* dashboard that leaves loses its state and leaves its requests behind, a
\* login or register page its submission, and the entry before the page of
\* a trip is the route the router was sent from.
Navigate(to, token, now) ==
    LET page == Landing(to, token)
    IN  /\ dashRoute' = page
        /\ IF ~Remounts(to, token)
           THEN /\ dpc' = now.dpc
                /\ meReply' = now.me
                /\ historyReply' = now.history
                /\ stale' = now.stale
                /\ logins' = now.logins
                /\ UNCHANGED <<user, lastTrip, dashLoading, dashError, caught, authError,
                               historyPage, tripPage, backEntry>>
           ELSE /\ Fresh(IF page = "/dashboard" THEN "mount" ELSE "unmounted")
                /\ stale' = now.stale (+) (IF Mounted THEN Leaving(now) ELSE EmptyBag)
                /\ historyPage' =
                      HistoryPage(IF page = "/trip-history" THEN "mount" ELSE "unmounted")
                /\ tripPage' = TripPage(IF page \in TripRoutes THEN "mount" ELSE "unmounted")
                /\ backEntry' = IF page \in TripRoutes THEN Str(dashRoute) ELSE Null
                /\ authError' = ""
                /\ logins' = [live |-> 0, dead |-> now.logins.live + now.logins.dead]

\* window.location.href = to: the document is loaded at a route.  The App
\* is mounted anew (App.js 34), the requests of the document that is left
\* have no callback any more, localStorage stays.
Load(to) ==
    LET page == Landing(to, storedToken)
    IN  /\ dashRoute' = page
        /\ Fresh(IF page = "/dashboard" THEN "mount" ELSE "unmounted")
        /\ historyPage' = HistoryPage(IF page = "/trip-history" THEN "mount" ELSE "unmounted")
        /\ tripPage' = TripPage(IF page \in TripRoutes THEN "mount" ELSE "unmounted")
        /\ backEntry' = Null
        /\ isLoggedIn' = FALSE
        /\ appPending' = TRUE
        /\ stale' = EmptyBag
        /\ logins' = [live |-> 0, dead |-> 0]
        /\ authError' = ""
        /\ UNCHANGED <<storedToken, jwtSecret>>

outsideDash ==
    <<planVars, pageVars, shownVars, inputs, stableVars, tripVars, authVars, weatherVars, pairVars>>

\* App.js 56-63: the effect that restores the session, which runs once, in
\* the flush of the first render and after the effects of the page
SessionRestoration ==
    /\ isLoggedIn' = (isLoggedIn \/ (appPending /\ storedToken # Null))
    /\ appPending' = FALSE

\* App.js 56-63 where the first render shows no page with an effect
AppEffect ==
    /\ appPending
    /\ dpc # "mount" /\ historyPage.at # "mount" /\ tripPage.at # "mount"
    /\ SessionRestoration
    /\ UNCHANGED <<dpc, storedToken, dashRoute, meReply, historyReply, user, lastTrip,
                   dashLoading, dashError, caught, jwtSecret, stale, logins, authError,
                   historyPage, tripPage, backEntry>>
    /\ UNCHANGED outsideDash

\* Dashboard.jsx 53-68: the effect reads the token; without one it goes to
\* the login page, with one it sends both requests
DashEffect ==
    /\ dpc = "mount"
    /\ IF storedToken = Null
       THEN Navigate("/login", storedToken, [Here EXCEPT !.dpc = "done"])
       ELSE /\ meReply' = Pending(storedToken)
            /\ historyReply' = Pending(storedToken)
            /\ dpc' = "waiting"
            /\ UNCHANGED <<dashRoute, user, lastTrip, dashLoading, dashError, caught,
                           stale, logins, authError, historyPage, tripPage, backEntry>>
    /\ SessionRestoration
    /\ UNCHANGED <<storedToken, jwtSecret>>
    /\ UNCHANGED outsideDash

\* Dashboard.jsx 69-76, 88-90: both requests fulfilled
DashThen(userRes, tripRes) ==
    /\ user' = userRes.data
    /\ lastTrip' = IF tripRes.data.success /\ Len(tripRes.data.trips) > 0
                   THEN tripRes.data.trips[1] ELSE lastTrip
    /\ dashLoading' = FALSE
    /\ dpc' = "done"
    /\ UNCHANGED <<storedToken, dashRoute, dashError, caught, stale, logins, authError,
                   historyPage, tripPage, backEntry>>

\* err.response?.status
StatusOf(err) ==
    IF "response" \in DOMAIN err THEN Num(err.response.status) ELSE Undefined

\* Dashboard.jsx 77-90: the first rejection, with the two promises as they
\* are by then
DashCatch(err, me, history) ==
    IF StatusOf(err) = Num(401)
    THEN /\ storedToken' = Null
         /\ Navigate("/login", Null, [Here EXCEPT !.me = me, !.history = history, !.dpc = "done"])
    ELSE /\ caught' = err
         /\ dashError' = dashFailed
         /\ dashLoading' = FALSE
         /\ dpc' = "done"
         /\ meReply' = me
         /\ historyReply' = history
         /\ UNCHANGED <<storedToken, dashRoute, user, lastTrip, stale, logins, authError,
                        historyPage, tripPage, backEntry>>

\* Promise.all (61-68) once a request is settled: it rejects with the first
\* rejection, fulfils when both are fulfilled, and is settled once
PromiseAll(me, history, settled) ==
    IF dpc = "waiting" /\ settled.state = "rejected"
    THEN DashCatch(settled.reason, me, history)
    ELSE /\ meReply' = me
         /\ historyReply' = history
         /\ IF dpc = "waiting" /\ me.state = "fulfilled" /\ history.state = "fulfilled"
            THEN DashThen(me.value, history.value)
            ELSE UNCHANGED <<dpc, storedToken, dashRoute, user, lastTrip, dashLoading,
                             dashError, caught, stale, logins, authError, historyPage,
                             tripPage, backEntry>>

\* GET /api/me is answered, or fails in the network
MeAnswered ==
    /\ IsPending(meReply)
    /\ \E settled \in {Settle(r) : r \in MeResponses(meReply.headers)}
                          \cup {Rejected(NetworkError)} :
          PromiseAll(settled, historyReply, settled)
    /\ UNCHANGED <<isLoggedIn, appPending, jwtSecret>>
    /\ UNCHANGED outsideDash

\* GET /api/trip/history is answered, or fails in the network
HistoryAnswered ==
    /\ IsPending(historyReply)
    /\ \E settled \in {Settle(r) : r \in HistoryResponses(historyReply.headers)}
                          \cup {Rejected(NetworkError)} :
          PromiseAll(meReply, settled, settled)
    /\ UNCHANGED <<isLoggedIn, appPending, jwtSecret>>
    /\ UNCHANGED outsideDash

\* A request of a dashboard that has left the screen is settled (61-90):
\* the setters of that dashboard do nothing, removeItem and navigate act
AbandonedSettled(before, after, settled) ==
    LET catches == before.dpc = "waiting" /\ settled.state = "rejected"
        thens == /\ before.dpc = "waiting"
                 /\ after.me.state = "fulfilled"
                 /\ after.history.state = "fulfilled"
        left == [me |-> Strip(after.me), history |-> Strip(after.history),
                 dpc |-> IF catches \/ thens THEN "done" ELSE before.dpc]
        rest == (stale (-) SetToBag({before})) (+) Leaving(left)
    IN  /\ IF catches /\ StatusOf(settled.reason) = Num(401)
           THEN /\ storedToken' = Null
                /\ Navigate("/login", Null, [Here EXCEPT !.stale = rest])
           ELSE /\ stale' = rest
                /\ UNCHANGED <<storedToken, dashRoute, dpc, meReply, historyReply, user,
                               lastTrip, dashLoading, dashError, caught, logins, authError,
                               historyPage, tripPage, backEntry>>
        /\ UNCHANGED <<isLoggedIn, appPending, jwtSecret>>
        /\ UNCHANGED outsideDash

\* GET /api/me of a dashboard that has left is answered
AbandonedMeAnswered ==
    \E before \in BagToSet(stale) :
        /\ IsPending(before.me)
        /\ \E settled \in {Settle(r) : r \in MeResponses(before.me.headers)}
                              \cup {Rejected(NetworkError)} :
              AbandonedSettled(before, [before EXCEPT !.me = settled], settled)

\* GET /api/trip/history of a dashboard that has left is answered
AbandonedHistoryAnswered ==
    \E before \in BagToSet(stale) :
        /\ IsPending(before.history)
        /\ \E settled \in {Settle(r) : r \in HistoryResponses(before.history.headers)}
                              \cup {Rejected(NetworkError)} :
              AbandonedSettled(before, [before EXCEPT !.history = settled], settled)

\* A dashboard with requests in flight can still be left
CanLeave ==
    ~(IsPending(meReply) \/ IsPending(historyReply)) \/ BagCardinality(stale) < MaxAbandoned

\* A click on a link or a button that sends the router to a route
Go(to) ==
    /\ EffectsFlushed
    /\ Remounts(to, storedToken) => CanLeave
    /\ Navigate(to, storedToken, Here)
    /\ UNCHANGED <<storedToken, isLoggedIn, appPending, jwtSecret>>
    /\ UNCHANGED outsideDash

\* Dashboard.jsx 161-166 and 223-228: 'Plan New Trip', and 'Create Your
\* First Trip' when there is no last trip
PlanNewTrip ==
    /\ Rendered
    /\ Go("/trip-plan")

\* Dashboard.jsx 167-172 and 206-211: 'View All Trips'
ViewAllTrips ==
    /\ Rendered
    /\ Go("/trip-history")

\* Dashboard.jsx 200-205: 'View Trip' of the last trip
ViewTrip ==
    /\ Rendered
    /\ lastTrip # Null
    /\ Go("/trip/" \o lastTrip.tripId)

\* err.response?.data?.error
ErrorOf(err) ==
    IF "response" \in DOMAIN err /\ "error" \in DOMAIN err.response
    THEN Str(err.response.error) ELSE Undefined

\* fetchTripHistory up to its request (TripHistory.js 9-26, part_001 61-63
\* and 73-86), called by the effect of the page: without a token it shows an error, with one it sends its request
HistoryEffect ==
    /\ historyPage.at = "mount"
    /\ historyPage' =
          IF storedToken = Null
          THEN [historyPage EXCEPT !.at = "done", !.loading = FALSE,
                                   !.error = "You must be logged in to view trip history."]
          ELSE [historyPage EXCEPT !.at = "waiting", !.request = Pending(storedToken)]
    /\ SessionRestoration
    /\ UNCHANGED <<dpc, storedToken, dashRoute, meReply, historyReply, user, lastTrip,
                   dashLoading, dashError, caught, jwtSecret, stale, logins, authError,
                   tripPage, backEntry>>
    /\ UNCHANGED outsideDash

\* fetchTripHistory from its response (TripHistory.js 28-42, part_001
\* 88-102)
FetchTripHistory(page, settled) ==
    [at |-> "done", request |-> Undefined, loading |-> FALSE,
     trips |-> IF settled.state = "fulfilled" /\ settled.value.data.success
               THEN settled.value.data.trips ELSE page.trips,
     error |-> IF settled.state = "fulfilled"
               THEN (IF settled.value.data.success THEN page.error
                     ELSE "Failed to fetch trip history.")
               ELSE IF ~Falsy(ErrorOf(settled.reason)) THEN ErrorOf(settled.reason).string
               ELSE "Failed to fetch trip history. Please try again."]

\* GET /api/trip/history of the trip-history page is answered, or fails in
\* the network
HistoryPageAnswered ==
    /\ historyPage.at = "waiting"
    /\ \E settled \in {Settle(r) : r \in HistoryResponses(historyPage.request.headers)}
                          \cup {Rejected(NetworkError)} :
          historyPage' = FetchTripHistory(historyPage, settled)
    /\ UNCHANGED <<dpc, storedToken, dashRoute, meReply, historyReply, user, lastTrip,
                   dashLoading, dashError, caught, isLoggedIn, appPending, jwtSecret,
                   stale, logins, authError, tripPage, backEntry>>
    /\ UNCHANGED outsideDash

\* TripHistory.js 54-66 (part_001 157-171): the trip-history page shows its
\* trips, not its loading or its error.  The filters of part_001 46-48 stay
\* as they are mounted, with which every trip fetched is listed.
Listed == historyPage.at = "done" /\ ~historyPage.loading /\ historyPage.error = ""

\* part_001 245-250 and part_002 90: 'View Trip' of a listed trip
HistoryViewTrip ==
    /\ Listed
    /\ \E k \in 1..Len(historyPage.trips) : Go("/trip/" \o historyPage.trips[k].tripId)

\* TripHistory.js 91: 'View Trip' of a listed trip as it loads the document
\* at /trip-planner?trip=..., a path App.js 182-198 has no route for
HistoryViewTripLoad ==
    /\ Listed
    /\ EffectsFlushed
    /\ \E k \in 1..Len(historyPage.trips) : Load("/trip-planner")
    /\ UNCHANGED outsideDash

\* part_001 264-268: 'Create Your First Trip', shown when no trip was fetched
CreateFirstTrip ==
    /\ Listed
    /\ Len(historyPage.trips) = 0
    /\ Go("/trip-plan")

\* trip.js 338-364: the responses GET /api/trip/trip/:tripId can send, by
\* what Trip.findOne gives (the trip, null, or an exception)
TripResponses(authHeader, tripId) ==
    LET auth == authenticateToken(IF authHeader = Undefined THEN Undefined
                                  ELSE authHeader.token)
    IN  IF ~auth.next THEN {auth.res}
        ELSE LET at == findOne(tripId, auth.user.email)
             IN  {[status |-> 500, error |-> "Failed to fetch trip"],
                  IF at = {} THEN [status |-> 404, error |-> "Trip not found"]
                  ELSE [status |-> 200,
                        data |-> [success |-> TRUE, trip |-> trips[CHOOSE k \in at : TRUE]]]}

\* TripView.js 83-110: the effect calls fetchTrip, which without a token
\* shows an error and with one sends its request
TripEffect ==
    /\ tripPage.at = "mount"
    /\ tripPage' =
          IF storedToken = Null
          THEN [tripPage EXCEPT !.at = "done", !.loading = FALSE,
                                !.error = "You must be logged in to view this trip."]
          ELSE [tripPage EXCEPT !.at = "waiting", !.request = Pending(storedToken)]
    /\ SessionRestoration
    /\ UNCHANGED <<dpc, storedToken, dashRoute, meReply, historyReply, user, lastTrip,
                   dashLoading, dashError, caught, jwtSecret, stale, logins, authError,
                   historyPage, backEntry>>
    /\ UNCHANGED outsideDash

\* TripView.js 106-112 and 175-182: the request of fetchTrip is answered,
\* or fails in the network; with the trip the page goes on to its routes,
\* still loading
TripAnswered ==
    /\ tripPage.at = "waiting"
    /\ \E settled \in {Settle(r) : r \in TripResponses(tripPage.request.headers,
                                                       TripOf(dashRoute))}
                          \cup {Rejected(NetworkError)} :
          tripPage' =
              IF settled.state = "fulfilled" /\ settled.value.data.success
              THEN [tripPage EXCEPT !.at = "routes", !.request = Undefined,
                                    !.trip = settled.value.data.trip]
              ELSE [tripPage EXCEPT !.at = "done", !.request = Undefined,
                                    !.loading = FALSE,
                                    !.error = "Failed to fetch trip details."]
    /\ UNCHANGED <<dpc, storedToken, dashRoute, meReply, historyReply, user, lastTrip,
                   dashLoading, dashError, caught, isLoggedIn, appPending, jwtSecret,
                   stale, logins, authError, historyPage, backEntry>>
    /\ UNCHANGED outsideDash

\* TripView.js 113-174 and 178-182: buildRoutes has fetched the routes of the stored
\* itinerary (fetchORSRoute never rejects), or reading an itinerary that
\* has no days has thrown, which the catch of 178 reports
TripRoutesBuilt ==
    /\ tripPage.at = "routes"
    /\ \E built \in BOOLEAN :
          tripPage' = [tripPage EXCEPT !.at = "done", !.loading = FALSE,
                                       !.error = IF built THEN @
                                                 ELSE "Failed to fetch trip details."]
    /\ UNCHANGED <<dpc, storedToken, dashRoute, meReply, historyReply, user, lastTrip,
                   dashLoading, dashError, caught, isLoggedIn, appPending, jwtSecret,
                   stale, logins, authError, historyPage, backEntry>>
    /\ UNCHANGED outsideDash

\* TripView.js 215-217 and 503-506: Back, which the page of a trip shows
\* once the trip is loaded, is navigate(-1): the router goes to the entry
\* before the page of the trip
TripViewBack ==
    /\ tripPage.at = "done"
    /\ ~tripPage.loading /\ tripPage.error = "" /\ tripPage.trip # Null
    /\ Go(backEntry.string)

\* App.js 123-136: the brand of the navigation bar
BrandLink ==
    /\ EffectsFlushed
    /\ Go(IF isLoggedIn THEN "/dashboard" ELSE "/login")

\* App.js 144-145: the links of the navigation bar, shown without a session
PublicLink ==
    /\ ~isLoggedIn
    /\ \E to \in {"/register", "/login"} : Go(to)

\* App.js 150-151: the links of the navigation bar, shown to a session
NavLink ==
    /\ isLoggedIn
    /\ \E to \in {"/trip-plan", "/trip-history"} : Go(to)

\* App.js 98-104 and 161: Logout in the navigation bar; the render that
\* follows finds no token in PrivateRoute and shows the login page
AppLogout ==
    /\ isLoggedIn
    /\ EffectsFlushed
    /\ Remounts(dashRoute, Null) => CanLeave
    /\ storedToken' = Null
    /\ isLoggedIn' = FALSE
    /\ Navigate(dashRoute, Null, Here)
    /\ UNCHANGED <<appPending, jwtSecret>>
    /\ UNCHANGED outsideDash

\* auth.js 127-131 and 60-64: the tokens POST /login and POST /register sign
IssuedTokens ==
    {[signed |-> TRUE,
      payload |-> [id |-> "id of " \o e, userId |-> "id of " \o e, email |-> e]] :
        e \in Emails}

\* auth.js 98-147: the responses POST /login can send, by what User.findOne
\* and bcrypt.compare give
LoginResponses ==
    {[status |-> 200, data |-> [token |-> t, message |-> "Login successful"]] :
        t \in IssuedTokens}
        \cup {[status |-> 401, data |-> [message |-> "Email not found"]],
              [status |-> 401, data |-> [message |-> "Invalid password"]],
              [status |-> 500, data |-> [message |-> "Server error"]]}

\* auth.js 27-79: the responses POST /register can send
RegisterResponses ==
    {[status |-> 201, data |-> [token |-> t, message |-> "Account created successfully"]] :
        t \in IssuedTokens}
        \cup {[status |-> 400, data |-> [message |-> "Email already exists"]],
              [status |-> 500, data |-> [message |-> "Registration failed"]]}

\* err.response?.data?.message
MessageOf(err) ==
    IF "response" \in DOMAIN err THEN Str(err.response.data.message) ELSE Undefined

\* Login.jsx 39-46
LoginMessage(err) ==
    IF MessageOf(err) = Str("Email not found")
    THEN "Email does not exist. Please check your email or register."
    ELSE IF MessageOf(err) = Str("Invalid password")
    THEN "Incorrect password. Please try again."
    ELSE "An error occurred. Please try again."

\* Register.jsx 41-46
RegisterMessage(err) ==
    IF MessageOf(err) = Str("Email already exists")
    THEN "This email is already registered. Please use a different email or try logging in."
    ELSE "Registration failed. Please try again."

\* Login.jsx 24-28 and Register.jsx 25-29: the form of a page is submitted
AuthSubmit(page) ==
    /\ EffectsFlushed
    /\ logins.live + logins.dead < MaxLogins
    /\ authError' = ""
    /\ logins' = [logins EXCEPT !.live = @ + 1]
    /\ UNCHANGED <<dpc, storedToken, dashRoute, meReply, historyReply, user, lastTrip,
                   dashLoading, dashError, caught, isLoggedIn, appPending, jwtSecret,
                   stale, historyPage, tripPage, backEntry>>
    /\ UNCHANGED outsideDash

LoginSubmit ==
    /\ dashRoute = "/login"
    /\ AuthSubmit("/login")

RegisterSubmit ==
    /\ dashRoute = "/register"
    /\ AuthSubmit("/register")

\* Login.jsx 31-36 and Register.jsx 33-38, with handleLogin of App.js 87-90:
\* the token is stored, the session is set and the router sent to the
\* dashboard.  The username, which is displayed and read by no route, is
\* left out here and in handleLogout.
SubmitThen(response, pending) ==
    /\ storedToken' = response.data.token
    /\ isLoggedIn' = TRUE
    /\ Navigate("/dashboard", response.data.token, [Here EXCEPT !.logins = pending])

\* Login.jsx 28-47: POST /login is answered, or fails in the network
LoginAnswered ==
    /\ dashRoute = "/login"
    /\ logins.live > 0
    /\ \E settled \in {Settle(r) : r \in LoginResponses} \cup {Rejected(NetworkError)} :
          IF settled.state = "fulfilled"
          THEN SubmitThen(settled.value, [logins EXCEPT !.live = @ - 1])
          ELSE /\ authError' = LoginMessage(settled.reason)
               /\ logins' = [logins EXCEPT !.live = @ - 1]
               /\ UNCHANGED <<dpc, storedToken, dashRoute, meReply, historyReply, user,
                              lastTrip, dashLoading, dashError, caught, isLoggedIn, stale,
                              historyPage, tripPage, backEntry>>
    /\ UNCHANGED <<appPending, jwtSecret>>
    /\ UNCHANGED outsideDash

\* Register.jsx 29-47: POST /register is answered, or fails in the network
RegisterAnswered ==
    /\ dashRoute = "/register"
    /\ logins.live > 0
    /\ \E settled \in {Settle(r) : r \in RegisterResponses} \cup {Rejected(NetworkError)} :
          IF settled.state = "fulfilled"
          THEN SubmitThen(settled.value, [logins EXCEPT !.live = @ - 1])
          ELSE /\ authError' = RegisterMessage(settled.reason)
               /\ logins' = [logins EXCEPT !.live = @ - 1]
               /\ UNCHANGED <<dpc, storedToken, dashRoute, meReply, historyReply, user,
                              lastTrip, dashLoading, dashError, caught, isLoggedIn, stale,
                              historyPage, tripPage, backEntry>>
    /\ UNCHANGED <<appPending, jwtSecret>>
    /\ UNCHANGED outsideDash

\* The submission of a page that has left the screen is answered: its
\* setError does nothing, setItem, handleLogin and navigate act
AbandonedSubmitAnswered ==
    /\ logins.dead > 0
    /\ \E settled \in {Settle(r) : r \in LoginResponses \cup RegisterResponses}
                          \cup {Rejected(NetworkError)} :
          IF settled.state = "fulfilled"
          THEN SubmitThen(settled.value, [logins EXCEPT !.dead = @ - 1])
          ELSE /\ logins' = [logins EXCEPT !.dead = @ - 1]
               /\ UNCHANGED <<dpc, storedToken, dashRoute, meReply, historyReply, user,
                              lastTrip, dashLoading, dashError, caught, isLoggedIn, stale,
                              authError, historyPage, tripPage, backEntry>>
    /\ UNCHANGED <<appPending, jwtSecret>>
    /\ UNCHANGED outsideDash

\* The dashboard as it is mounted, the server with or without JWT_SECRET:
\* in the first render of a document loaded at /dashboard, where the
\* session is not yet restored (App.js 34 and 56-63), or later, by the
\* login form or through "/", with the session set
InitDash ==
    /\ PlanIdle /\ PageMounted /\ NothingValidated /\ NoUsers
    /\ NoWeatherRequest /\ NoPair
    /\ trips \in StoredTrips
    /\ inflight = EmptyBag
    /\ saves = Len(trips)
    /\ tripsReq = Null
    /\ tripsRes = NoResponse
    /\ dpc = "mount"
    /\ storedToken \in StoredTokens
    /\ dashRoute = "/dashboard"
    /\ meReply = Undefined
    /\ historyReply = Undefined
    /\ user = Null
    /\ lastTrip = Null
    /\ dashLoading = TRUE
    /\ dashError = ""
    /\ caught = Undefined
    /\ appPending \in BOOLEAN
    /\ isLoggedIn \in BOOLEAN
    /\ appPending => ~isLoggedIn
    /\ (~appPending /\ storedToken # Null) => isLoggedIn
    /\ jwtSecret \in {Undefined, Str("secret")}
    /\ stale = EmptyBag
    /\ logins = [live |-> 0, dead |-> 0]
    /\ authError = ""
    /\ historyPage = HistoryPage("unmounted")
    /\ tripPage = TripPage("unmounted")
    /\ backEntry = Null

NextDash ==
    \/ AppEffect
    \/ DashEffect
    \/ MeAnswered
    \/ HistoryAnswered
    \/ AbandonedMeAnswered
    \/ AbandonedHistoryAnswered
    \/ PlanNewTrip
    \/ ViewAllTrips
    \/ ViewTrip
    \/ HistoryEffect
    \/ HistoryPageAnswered
    \/ HistoryViewTrip
    \/ HistoryViewTripLoad
    \/ CreateFirstTrip
    \/ TripEffect
    \/ TripAnswered
    \/ TripRoutesBuilt
    \/ TripViewBack
    \/ BrandLink
    \/ PublicLink
    \/ NavLink
    \/ AppLogout
    \/ LoginSubmit
    \/ LoginAnswered
    \/ RegisterSubmit
    \/ RegisterAnswered
    \/ AbandonedSubmitAnswered

SpecDash == InitDash /\ [][NextDash]_vars

(***************************************************************************)
(* POST /weather (src/server/routes/trip.js 718-839).  Dates are counted   *)
(* in days, the clock in days and hours; the weather service is the        *)
(* environment and answers every call, with data or with a failure.        *)
(***************************************************************************)
MaxAhead == 6    \* the latest trip date, in days from the first day

\* new Date(tripDate).getTime() - new Date().getTime(), in hours: a date
\* without a time is midnight; a text that is no date gives NaN
DiffTime(tripDate, now) ==
    IF "day" \in DOMAIN tripDate
    THEN Num(tripDate.day * 24 - (now.day * 24 + now.hour))
    ELSE Undefined

\* trip.js 739: Math.ceil(diffTime / (1000 * 60 * 60 * 24)); NaN stays NaN
DiffDays(tripDate, now) ==
    LET diffTime == DiffTime(tripDate, now)
    IN  IF diffTime = Undefined THEN Undefined
        ELSE Num(-((-diffTime.number) \div 24))

\* The bodies of the request and the clock when it is handled
WeatherRequests ==
    [city : {Undefined, Str("Lyon")},
     country : {Str(""), Str("France")},
     tripDate : {Undefined, Str("soon")} \cup {[day |-> d] : d \in 0..MaxAhead},
     now : [day : {1}, hour : {0, 12}]]

\* What awaiting axios.get of the weather service can give: a rejection
\* with the response's status or without a response, data with an error,
\* data of another shape, or a forecast for some days (743-745, 790-791)
WeatherFailures ==
    {[kind |-> "throws", response |-> Num(s)] : s \in {400, 401, 503}}
        \cup {[kind |-> "throws", response |-> Undefined],
              [kind |-> "data", error |-> "No matching location found."],
              [kind |-> "data"]}

ForecastAnswers(now) ==
    WeatherFailures
        \cup {[kind |-> "data", forecastday |-> <<now.day + z, now.day + z + 1, now.day + z + 2>>] :
                z \in {-1, 0}}

CurrentAnswers == WeatherFailures \cup {[kind |-> "data", current |-> 18]}

\* trip.js 818-838: the catch
WeatherCatch(err) ==
    IF err.response = Num(401)
    THEN [status |-> 500, error |-> "Weather API key is invalid or missing"]
    ELSE IF err.response = Num(400)
    THEN [status |-> 400, error |-> "City not found or invalid location"]
    ELSE [status |-> 500, error |-> "Failed to fetch weather data"]

\* Reading a property of undefined throws a TypeError, which has no response
TypeError == [kind |-> "throws", response |-> Undefined]

outsideWeather ==
    <<planVars, pageVars, shownVars, inputs, stableVars, tripVars, authVars, dashVars, pairVars>>

\* trip.js 719-745, 787-791: the body is checked, the days to the trip are
\* counted and the call that fits them is sent; for no other count is there
\* a branch
WeatherStart ==
    /\ wpc = "start"
    /\ IF Falsy(wreq.city) \/ Falsy(wreq.country) \/ Falsy(wreq.tripDate)
       THEN /\ wres' = Append(wres, [status |-> 400,
                                     error |-> "City, country, and trip date are required"])
            /\ wpc' = "done"
            /\ UNCHANGED wcall
       ELSE LET diffDays == DiffDays(wreq.tripDate, wreq.now)
            IN  IF diffDays # Undefined /\ diffDays.number >= 0 /\ diffDays.number <= 3
                THEN /\ wcall' = [url |-> "forecast.json", q |-> <<wreq.city, wreq.country>>]
                     /\ wpc' = "forecast"
                     /\ UNCHANGED wres
                ELSE IF diffDays # Undefined /\ diffDays.number >= 4
                THEN /\ wcall' = [url |-> "current.json", q |-> <<wreq.city, wreq.country>>]
                     /\ wpc' = "current"
                     /\ UNCHANGED wres
                ELSE /\ wpc' = "done"
                     /\ UNCHANGED <<wres, wcall>>
    /\ UNCHANGED wreq
    /\ UNCHANGED outsideWeather

\* trip.js 745-786, 818-838: the forecast is answered
ForecastAnswered ==
    /\ wpc = "forecast"
    /\ \E answer \in ForecastAnswers(wreq.now) :
          wres' = Append(wres,
                    IF answer.kind = "throws" THEN WeatherCatch(answer)
                    ELSE IF "error" \in DOMAIN answer
                    THEN [status |-> 400, error |-> answer.error]
                    ELSE IF "forecastday" \notin DOMAIN answer THEN WeatherCatch(TypeError)
                    ELSE IF \E k \in 1..Len(answer.forecastday) :
                                answer.forecastday[k] = wreq.tripDate.day
                    THEN [status |-> 200, success |-> TRUE,
                          weather |-> [date |-> wreq.tripDate.day]]
                    ELSE [status |-> 400,
                          error |-> "Weather forecast not available for this date"])
    /\ wpc' = "done"
    /\ UNCHANGED <<wreq, wcall>>
    /\ UNCHANGED outsideWeather

\* trip.js 791-815, 818-838: the current weather is answered
CurrentAnswered ==
    /\ wpc = "current"
    /\ \E answer \in CurrentAnswers :
          wres' = Append(wres,
                    IF answer.kind = "throws" THEN WeatherCatch(answer)
                    ELSE IF "error" \in DOMAIN answer
                    THEN [status |-> 400, error |-> answer.error]
                    ELSE IF "current" \notin DOMAIN answer THEN WeatherCatch(TypeError)
                    ELSE [status |-> 200, success |-> TRUE,
                          weather |-> [date |-> wreq.tripDate.day,
                                       currentTemperature |-> answer.current]])
    /\ wpc' = "done"
    /\ UNCHANGED <<wreq, wcall>>
    /\ UNCHANGED outsideWeather

InitWeather ==
    /\ PlanIdle /\ PageMounted /\ NothingValidated /\ NoTrips /\ NoUsers
    /\ DashUnmounted /\ NoPair
    /\ wpc = "start"
    /\ wreq \in WeatherRequests
    /\ wres = <<>>
    /\ wcall = Null

NextWeather ==
    \/ WeatherStart
    \/ ForecastAnswered
    \/ CurrentAnswered

\* The handler runs whenever it can, and the weather service answers
SpecWeather == InitWeather /\ [][NextWeather]_vars /\ WF_vars(NextWeather)

(***************************************************************************)
(* Properties                                                              *)
(***************************************************************************)
Accepted == pc = "done" /\ res.status = 200
PassedInputValidation == request.complete /\ request.tripType \in {"bike", "trek"}

RECURSIVE MeasuredDistance(_)
\* The sum of the distances the oracle measured over a day's segments
MeasuredDistance(segments) ==
    IF segments = <<>> THEN 0
    ELSE (IF IsNumber(Head(segments).distance) THEN Head(segments).distance.number ELSE 0)
            + MeasuredDistance(Tail(segments))

RECURSIVE MeasuredDuration(_)
MeasuredDuration(segments) ==
    IF segments = <<>> THEN 0
    ELSE (IF IsNumber(Head(segments).duration) THEN Head(segments).duration.number ELSE 0)
            + MeasuredDuration(Tail(segments))

\* C1: in every accepted itinerary, each day's oracle-measured segment
\* distances sum to 10 000..60 000 m for a bike trip and to 5 000..15 000 m for
\* a trek, bounds included, whatever replies and answers came before.  (The
\* measured segments are those of the validator's record; a segment recorded
\* as null has no measurement.)
C1_AcceptedDaysWithinEnvelope ==
    foundValid =>
        /\ Len(orsData) = Len(tripData.days)
        /\ \A idx \in 1..Len(orsData) :
              LET total == MeasuredDistance(orsData[idx].orsSegments)
              IN  IF request.tripType = "bike"
                  THEN total >= 10000 /\ total <= 60000
                  ELSE total >= 5000 /\ total <= 15000

\* A trek accepted after a rejected attempt, with its day measured at exactly
\* the upper limit of 15 000 m
C1_Witness ==
    /\ Accepted
    /\ request.tripType = "trek"
    /\ attempt > 0
    /\ Len(orsData) = 1
    /\ MeasuredDistance(orsData[1].orsSegments) = 15000

\* C2: when every candidate is rejected, by the parse catch or by the
\* validator, the loop calls the model exactly maxRetries = 5 times and then
\* answers with the failure; the model is never called a 6th time.  (The loop
\* variable advances only on a rejection, so that attempt = groqCalls says
\* that every call of the model ended in one.)
C2_ExactlyMaxRetriesCalls ==
    /\ groqCalls <= 5
    /\ (pc = "done" /\ groqCalls > 0 /\ attempt = groqCalls) =>
          /\ groqCalls = 5
          /\ res = Exhausted(lastRawResponse)

\* Five rejections, some by the parse catch and some by the validator
C2_Witness ==
    /\ pc = "done"
    /\ res.status = 500
    /\ groqCalls = 5
    /\ attempt = 5
    /\ parseFailures >= 1
    /\ validatorCalls >= 1

\* C3: no accepted itinerary holds a segment whose measurement is null: a
\* candidate with a malformed segment answer is rejected as a whole.
C3_NoNullSegmentAccepted ==
    Accepted =>
        \A idx \in 1..Len(res.tripData.days) :
            LET day == res.tripData.days[idx]
            IN  /\ \A k \in 1..Len(day.distances) : day.distances[k] # "N/A"
                /\ \A k \in 1..Len(day.durations) : day.durations[k] # "N/A"

\* C4: in every accepted itinerary the first waypoint of day 1 has the
\* coordinates of the last waypoint of the last day.
C4_ClosedLoop ==
    (Accepted /\ Len(res.tripData.days) > 0) =>
        LET days == res.tripData.days
            lastDay == days[Len(days)]
        IN  days[1].cities[1].coordinates
                = lastDay.cities[Len(lastDay.cities)].coordinates

\* C5: on acceptance every day's totalDistance, estimatedTime, distances and
\* durations are the figures the validator measured for that day of that
\* candidate (a day of 8000 m reads "8.00 km"); none of the model's own figures
\* for these fields is left.
C5_OverwrittenWithMeasurements ==
    Accepted =>
        /\ Len(res.tripData.days) = Len(orsData)
        /\ \A idx \in 1..Len(res.tripData.days) :
              LET day == res.tripData.days[idx]
                  segs == orsData[idx].orsSegments
              IN  /\ day.totalDistance = FormatDayDistance(MeasuredDistance(segs))
                  /\ day.estimatedTime = FormatDayTime(MeasuredDuration(segs))
                  /\ day.distances = [k \in 1..Len(segs) |-> FormatSegDistance(segs[k])]
                  /\ day.durations = [k \in 1..Len(segs) |-> FormatSegDuration(segs[k])]
                  /\ MeasuredDistance(segs) = 8000 => day.totalDistance = "8.00 km"
                  /\ day.totalDistance # "12 km"
                  /\ day.estimatedTime # "3 hours"
                  /\ \A k \in 1..Len(day.distances) : day.distances[k] \notin {"0 km", "4 km"}

\* A trek accepted on the first attempt with a day measured at 8000 m
C5_Witness ==
    /\ Accepted
    /\ request.tripType = "trek"
    /\ groqCalls = 1
    /\ Len(orsData) = 1
    /\ orsData[1].dayDistance = 8000
    /\ res.tripData.days[1].totalDistance = "8.00 km"
    /\ res.tripData.days[1].distances = <<"3.00 km", "5.00 km">>

\* C6: a reply that does not parse counts as one failed attempt for which the
\* validator is not called; when all 5 replies fail to parse, the response is
\* the failure carrying the 5th reply, and the oracle was never called.
C6_ParseFailureSkipsValidator ==
    /\ validatorCalls <= groqCalls - parseFailures
    /\ parseFailures <= attempt
    /\ (pc = "done" /\ parseFailures = 5) =>
          /\ res = Exhausted(lastModelReply)
          /\ groqCalls = 5
          /\ validatorCalls = 0
          /\ orsCalls = 0

\* Five replies that do not parse, the last one a text
C6_Witness ==
    /\ pc = "done"
    /\ parseFailures = 5
    /\ res.status = 500
    /\ res.rawResponse = Str(<<Prose, RBrace, Prose, LBrace>>)

\* C7: a request that passes input validation ends either accepted, with the
\* itinerary, or failed, with the raw text of the model's last reply and
\* without an itinerary.
C7_AcceptedOrFailedWithRawText ==
    (pc = "done" /\ PassedInputValidation) =>
        \/ res.status = 200 /\ res.success /\ "tripData" \in DOMAIN res
        \/ /\ res.status = 500
           /\ "tripData" \notin DOMAIN res
           /\ "rawResponse" \in DOMAIN res
           /\ res.rawResponse = lastModelReply

\* C8: the loop stops at the first accepted candidate: accepted on attempt k,
\* exactly k calls of the model were made, the validator was called once for
\* each reply that parsed, and no model or oracle call follows the acceptance.
C8_StopsAtFirstAccepted ==
    foundValid =>
        /\ groqCalls = attempt + 1
        /\ groqCalls = atAccept.groqCalls
        /\ orsCalls = atAccept.orsCalls
        /\ validatorCalls = groqCalls - parseFailures

\* A trek accepted on the second attempt after a first candidate that parsed
\* and was rejected: 2 calls of the model, 2 calls of the validator
C8_Witness ==
    /\ Accepted
    /\ request.tripType = "trek"
    /\ groqCalls = 2
    /\ validatorCalls = 2
    /\ parseFailures = 0

\* C9: a call of the model that throws counts as one failed attempt and is
\* retried while attempts remain; the failure reaches the caller only when all
\* 5 attempts are used up.
C9_ModelFailureIsRetried ==
    (pc = "done" /\ groqThrows > 0) => groqCalls = 5

\* A reply that parsed to an object without a days sequence, or with a day
\* without a waypoint sequence
Malformed(data) ==
    \/ "days" \notin DOMAIN data
    \/ \E d \in 1..Len(data.days) : "cities" \notin DOMAIN data.days[d]

\* C10: a reply that parses but is no well-formed itinerary is a failed attempt
\* that is retried within the bound; it never ends the request before the
\* retries are used up.
C10_MalformedItineraryIsRetried ==
    (pc = "done" /\ PassedInputValidation /\ groqThrows = 0 /\ ~foundValid
        /\ validatorCalls > 0 /\ Malformed(tripData)) =>
        /\ groqCalls = 5
        /\ res = Exhausted(lastRawResponse)

\* C11: when a call of the oracle fails in transport (exception or non-2xx),
\* or its answer lacks the route or its geometry, the validator returns the
\* rejection value and only the current candidate fails: the request is not
\* ended by the handler's catch, a fresh candidate is requested while attempts
\* remain, and the failure response is sent only when all 5 are used up.
C11_OracleFailureFailsOnlyCandidate ==
    orsFailure # "none" =>
        /\ res # PlanError
        /\ pc \in {"AfterValidate", "GroqRequest", "Requesting", "Respond", "done"}
        /\ pc = "AfterValidate" => validation = [valid |-> FALSE]
        /\ pc \in {"GroqRequest", "Requesting"} => attempt < 5 /\ groqCalls = attempt
        /\ pc \in {"Respond", "done"} => attempt = 5 /\ groqCalls = 5 /\ ~foundValid
        /\ pc = "done" => res = Exhausted(lastRawResponse)

\* The oracle's second call of the first attempt was rejected by the
\* transport, and the loop is about to request the second candidate
C11_Witness ==
    /\ pc = "Requesting"
    /\ orsFailure = "throws"
    /\ attempt = 1
    /\ orsCalls = 2
    /\ res = NoResponse

Returned(v) == "isValid" \in DOMAIN v
Invalid(v) == Returned(v) /\ ~v.isValid

\* C12: in every submission validateCity is invoked only after validateCountry
\* has returned valid in that same submission, and never with an empty or
\* undefined country code; its lookup is sent only by such an invocation.
C12_CityAfterValidCountry ==
    /\ cityCall # Null =>
          /\ countryAnswer # Null
          /\ Returned(countryValidation)
          /\ countryValidation.isValid
          /\ cityCall.countryCode # Undefined
          /\ cityCall.countryCode # Str("")
          /\ cityCall.countryCode = Str(countryValidation.countryCode)
    /\ cityLookup # Null => cityCall # Null
    /\ hpc = "validateCountry" => cityCall = Null /\ cityLookup = Null

\* In the second submission the country was found valid with code FR and
\* validateCity has sent its lookup for "Lyon"
C12_Witness ==
    /\ hpc = "validateCity"
    /\ submissions = 2
    /\ countryValidation.isValid
    /\ cityCall = [cityName |-> "Lyon", countryCode |-> Str("FR")]

\* C13: when validateCountry or validateCity reports invalid, which it does
\* also when its lookup fails, the submission is over with one of the two
\* error messages shown, and POST /api/trip/plan was not sent for it.
C13_InvalidGeocodingNeverPosts ==
    /\ (countryAnswer # Null /\ countryAnswer.kind = "throws") => Invalid(countryValidation)
    /\ (cityAnswer # Null /\ cityAnswer.kind = "throws") => Invalid(cityValidation)
    /\ (Invalid(countryValidation) \/ Invalid(cityValidation)) =>
          /\ planPosts = 0
          /\ hpc = "form"
          /\ ~loading
          /\ pageTripData = Null
          /\ error = IF Invalid(countryValidation)
                     THEN countryError(called.country)
                     ELSE cityError(called.city, called.country)
          /\ error # ""

\* The city lookup of a submission failed in transport: the submission is over
\* with the city's error message and nothing was posted
C13_Witness ==
    /\ hpc = "form"
    /\ cityAnswer = [kind |-> "throws"]
    /\ countryValidation.isValid
    /\ error = "Could not find \"Lyon\" in France. Please check the city name and try again."
    /\ planPosts = 0

\* A name with case and non-letters stripped, for the names of the model
Normalized(name) ==
    CASE name \in {"France", "france"} -> "france"
      [] name = "Paris" -> "paris"
      [] name = "Atlantic Ocean" -> "atlanticocean"
      [] name = "United States" -> "unitedstates"

\* C14: validateCountry reports valid only when the geocoder's top result is
\* a country whose normalized name is the normalized input; an input that
\* resolves to a place inside a country is rejected.
C14_ValidOnlyForMatchingCountry ==
    (Returned(countryValidation) /\ countryValidation.isValid) =>
        LET top == countryAnswer.data[1]
        IN  /\ top.addresstype = "country"
            /\ ~Falsy(AddressField(top, "country"))
            /\ Normalized(top.address.country) = Normalized(called.country)

\* C15: the city lookup is constrained to the country code the geocoder
\* resolved for the country input, and validateCity reports valid only when
\* its top result has that code: a city of the same name in another country
\* is never accepted.
C15_CityConstrainedToResolvedCountry ==
    /\ cityLookup # Null =>
          LET resolved == AddressField(countryAnswer.data[1], "country_code")
          IN  /\ ~Falsy(resolved)
              /\ cityLookup.countrycodes = toUpperCase(resolved.string)
    /\ (Returned(cityValidation) /\ cityValidation.isValid) =>
          LET resolved == AddressField(countryAnswer.data[1], "country_code")
              found == AddressField(cityAnswer.data[1], "country_code")
          IN  /\ ~Falsy(resolved)
              /\ ~Falsy(found)
              /\ toUpperCase(found.string) = toUpperCase(resolved.string)

\* C16: against an oracle that gives the same answer for the same start, end
\* and profile, the validator called twice with the same candidate and trip
\* type returns the same verdict both times and, when it accepts, the same
\* distances and durations for every day and every segment.
C16_SameVerdictAndMeasurements ==
    (pc = "AfterValidate" /\ validatorCalls = 2) =>
        /\ validation.valid = firstValidation.valid
        /\ validation.valid =>
              /\ Len(validation.allORSData) = Len(firstValidation.allORSData)
              /\ \A d \in 1..Len(validation.allORSData) :
                    LET a == validation.allORSData[d]
                        b == firstValidation.allORSData[d]
                    IN  /\ a.dayDistance = b.dayDistance
                        /\ a.dayDuration = b.dayDuration
                        /\ a.orsSegments = b.orsSegments

\* A bike itinerary of two days accepted by both calls, two oracle requests
\* in the second
C16_Witness ==
    /\ pc = "AfterValidate"
    /\ validatorCalls = 2
    /\ request.tripType = "bike"
    /\ validation.valid
    /\ firstValidation.valid
    /\ Len(validation.allORSData) = 2
    /\ orsCalls = 2

RECURSIVE TotalDistance(_)
\* The oracle-measured distance over all days of a validator's record
TotalDistance(record) ==
    IF record = <<>> THEN 0
    ELSE MeasuredDistance(Head(record).orsSegments) + TotalDistance(Tail(record))

\* C17: an accepted itinerary has the day count of its trip type, one day for
\* a trek and two for a bike trip, so that the oracle-measured distance over a
\* whole accepted trek lies within 5 000..15 000 m; a reply with another
\* number of days is never accepted.
C17_AcceptedHasDayCountOfTripType ==
    Accepted =>
        /\ Len(res.tripData.days) = IF request.tripType = "bike" THEN 2 ELSE 1
        /\ request.tripType = "trek" =>
              TotalDistance(orsData) >= 5000 /\ TotalDistance(orsData) <= 15000

\* The caller of the latest request holds a verified token with an email
Authenticated == tripsReq # Null /\ authenticateToken(tripsReq.token).next
CallerEmail == tripsReq.token.payload.email
Owns(email, tripId) ==
    \E k \in 1..Len(trips) : trips[k].tripId = tripId /\ trips[k].userEmail = email

\* C18: whatever was saved before, GET /trip/:tripId answers with a trip only
\* when that stored trip's userEmail is the authenticated caller's email, and
\* with 404 when the database has no such trip of the caller; GET /history
\* lists only trips whose userEmail is the caller's email; a request without
\* a valid token is answered 401 or 403 without trip data.
C18_TripsOnlyForTheirOwner ==
    tripsReq # Null =>
        /\ ~Authenticated =>
              /\ tripsRes.status \in {401, 403}
              /\ DOMAIN tripsRes = {"status", "error"}
        /\ "trip" \in DOMAIN tripsRes =>
              /\ Authenticated
              /\ tripsReq.route = "trip"
              /\ tripsRes.trip.userEmail = CallerEmail
              /\ tripsRes.trip.tripId = tripsReq.tripId
              /\ \E k \in 1..Len(trips) : trips[k] = tripsRes.trip
        /\ (Authenticated /\ tripsReq.route = "trip" /\ tripsReq.dbOk
                /\ ~Owns(CallerEmail, tripsReq.tripId)) =>
              tripsRes.status = 404
        /\ "trips" \in DOMAIN tripsRes =>
              /\ Authenticated
              /\ tripsReq.route = "history"
              /\ \A j \in 1..Len(tripsRes.trips) :
                    Owns(CallerEmail, tripsRes.trips[j].tripId)

\* Bob asks for a trip that Alice has saved, while a trip of his own is
\* stored too, and is answered 404
C18_Witness ==
    /\ tripsReq # Null
    /\ tripsReq.route = "trip"
    /\ Authenticated
    /\ CallerEmail = "bob@x.com"
    /\ Owns("alice@x.com", tripsReq.tripId)
    /\ \E k \in 1..Len(trips) : trips[k].userEmail = "bob@x.com"
    /\ tripsRes.status = 404

\* An address with the case of its letters ignored
CaseFolded(email) == IF email \in {"Alice@X.com", "alice@x.com"} THEN "ALICE@X.COM" ELSE email

\* C19: under every interleaving of requests to POST /register, also of two
\* concurrent ones whose addresses differ in letter case only, no two stored
\* users have addresses that are equal with case ignored.
C19_EmailsUniqueIgnoringCase ==
    \A u \in users : \A v \in users :
        u # v => CaseFolded(u.email) # CaseFolded(v.email)

\* Two requests for the same address in different case have both passed
\* their lookup; the first has stored its user, the second is at its save
C19_Witness ==
    /\ reg[1].at = "done"
    /\ reg[1].email = "alice@x.com"
    /\ reg[1].status = 201
    /\ reg[2].at = "save"
    /\ reg[2].email = "Alice@X.com"
    /\ \E u \in users : u.email = "alice@x.com"

RECURSIVE SegmentsBefore(_, _)
\* The number of segments that come before segment i of day d in the order
\* of the candidate's waypoints
SegmentsBefore(d, i) ==
    IF d <= 1 THEN i
    ELSE (Len(tripData.days[d - 1].cities) - 1) + SegmentsBefore(d - 1, 0) + i

\* C20: within one request at most one call of the model or of the oracle is
\* outstanding at any time; the calls of the oracle are issued segment by
\* segment in the order of the waypoints (the k-th call of a validation is for
\* the k-th segment); and the model is called for the next attempt only when
\* the reply of every earlier attempt has been parsed and, if it parsed,
\* validated to the end.
C20_ExternalCallsSequential ==
    /\ Cardinality(outstanding) <= 1
    /\ pc = "Requesting" => outstanding = {[kind |-> "groq", attempt |-> attempt]}
    /\ pc = "OrsCall" =>
          /\ outstanding = {[kind |-> "ors", day |-> vDay, segment |-> vI,
                             profile |-> Profile(request.tripType)]}
          /\ orsCalls = SegmentsBefore(vDay, vI)
          /\ vI < Len(tripData.days[vDay].cities) - 1
    /\ pc \notin {"Requesting", "OrsCall"} => outstanding = {}
    /\ pc = "GroqRequest" =>
          /\ validation = Undefined
          /\ vDay = 0
          /\ allORSData = <<>>
          /\ groqCalls = attempt
          /\ parseFailures + validatorCalls = attempt

\* In the second attempt the request for the first segment of day 2 is
\* outstanding, after the one for day 1 was answered
C20_Witness ==
    /\ pc = "OrsCall"
    /\ attempt = 1
    /\ vDay = 2
    /\ vI = 0
    /\ orsCalls = 1
    /\ outstanding = {[kind |-> "ors", day |-> 2, segment |-> 0, profile |-> "cycling-regular"]}

\* C22: the validator never retries a segment and stops at the first
\* failure: while it is requesting a segment, every pair before it was sent
\* to the oracle exactly once (the k-th call is for the k-th pair), none of
\* them failed or came back malformed, and every day recorded so far is
\* within its envelope.
C22_NoRetryAndFailFast ==
    pc \in {"OrsRequest", "OrsCall"} =>
        /\ orsCalls = SegmentsBefore(vDay, vI)
        /\ orsFailure = "none"
        /\ Len(orsSegments) = vI
        /\ \A k \in 1..Len(orsSegments) :
              IsNumber(orsSegments[k].distance) /\ IsNumber(orsSegments[k].duration)
        /\ \A d \in 1..Len(allORSData) :
              /\ ~OutsideLimits(allORSData[d].dayDistance, request.tripType)
              /\ \A k \in 1..Len(allORSData[d].orsSegments) :
                    IsNumber(allORSData[d].orsSegments[k].distance)

\* The first balanced brace block of a text: from its first "{" to the first
\* "}" after it that closes as many braces as were opened
FirstBalancedBlock(text) ==
    LET opens == {i \in 1..Len(text) : text[i] = LBrace}
        first == CHOOSE i \in opens : \A k \in opens : i <= k
        depth(j) == Cardinality({k \in first..j : text[k] = LBrace})
                        - Cardinality({k \in first..j : text[k] = RBrace})
        ends == {j \in (first + 1)..Len(text) : text[j] = RBrace /\ depth(j) = 0}
    IN  IF opens = {} \/ ends = {} THEN Failure
        ELSE JSONparse(SubSeq(text, first, CHOOSE j \in ends : \A k \in ends : j <= k))

\* C23: whenever the model's text holds a balanced brace block that is valid
\* JSON, with prose around it, also prose after it that has braces of its own,
\* parsing succeeds and the candidate is the content of that first block.
C23_FirstBalancedBlockIsParsed ==
    (pc \in {"Validate", "GroqRequest"} /\ "string" \in DOMAIN lastModelReply
        /\ FirstBalancedBlock(lastModelReply.string).ok) =>
        tripData = FirstBalancedBlock(lastModelReply.string).value

\* C24: in every accepted itinerary each day's list of segment distances and
\* its list of segment durations have one entry per pair of consecutive
\* waypoints, (number of waypoints - 1) entries, and entry i is the oracle's
\* measurement for the pair (waypoint i, waypoint i+1): the answer to the
\* request for segment i is recorded in place i of its day.
C24_OneMeasurementPerWaypointPair ==
    /\ pc = "OrsCall" =>
          /\ outstanding = {[kind |-> "ors", day |-> vDay, segment |-> vI,
                             profile |-> Profile(request.tripType)]}
          /\ Len(orsSegments) = vI
          /\ Len(allORSData) = vDay - 1
    /\ Accepted =>
          \A idx \in 1..Len(res.tripData.days) :
              LET day == res.tripData.days[idx]
                  segs == orsData[idx].orsSegments
              IN  /\ Len(day.distances) = Len(day.cities) - 1
                  /\ Len(day.durations) = Len(day.cities) - 1
                  /\ \A k \in 1..Len(day.distances) :
                        /\ IsNumber(segs[k].distance)
                        /\ day.distances[k] = toFixed(segs[k].distance.number, 1000, 2) \o " km"
                  /\ \A k \in 1..Len(day.durations) :
                        /\ IsNumber(segs[k].duration)
                        /\ day.durations[k] = toFixed(segs[k].duration.number, 60, 1) \o " min"

\* C25: every call of the oracle uses the profile of the request's trip type,
\* cycling for bike and walking for trek, for every segment of every day of
\* every candidate of the request.
C25_ProfileOfTripType ==
    \A call \in outstanding :
        call.kind = "ors" =>
            /\ request.tripType \in {"bike", "trek"}
            /\ request.tripType = "bike" => call.profile = "cycling-regular"
            /\ request.tripType = "trek" => call.profile = "foot-walking"

\* In the third attempt of a bike request the oracle is asked for a segment
\* of day 2 with the cycling profile
C25_Witness ==
    /\ pc = "OrsCall"
    /\ request.tripType = "bike"
    /\ attempt = 2
    /\ vDay = 2
    /\ \E call \in outstanding : call.kind = "ors" /\ call.profile = "cycling-regular"

\* C28: every itinerary returned as accepted has at least one day, and each
\* of its days has at least two waypoints and at least one segment measured
\* by the oracle.
C28_AcceptedItineraryNonEmpty ==
    Accepted =>
        /\ Len(res.tripData.days) >= 1
        /\ \A idx \in 1..Len(res.tripData.days) :
              /\ Len(res.tripData.days[idx].cities) >= 2
              /\ Len(orsData[idx].orsSegments) >= 1
              /\ \E k \in 1..Len(orsData[idx].orsSegments) :
                    IsNumber(orsData[idx].orsSegments[k].distance)

\* The responses by which a server refuses a token that is invalid or expired
TokenRefusals ==
    {[status |-> 403, error |-> "Invalid or expired token"],
     [status |-> 403, error |-> "Invalid token"],
     [status |-> 403, error |-> "Invalid token structure"]}

\* C27: when the rejection the dashboard handles is a server's refusal of
\* the stored token (invalid or expired), the dashboard has removed the
\* token from localStorage and shows the login page.
C27_TokenRefusalLogsOut ==
    (dpc = "done" /\ "response" \in DOMAIN caught /\ caught.response \in TokenRefusals) =>
        storedToken = Null /\ dashRoute = "/login"

\* A request to POST /weather with city, country and tripDate
Supplied ==
    wpc # "idle" /\ ~Falsy(wreq.city) /\ ~Falsy(wreq.country) /\ ~Falsy(wreq.tripDate)

\* C29: a request to POST /weather that supplies city, country and tripDate
\* eventually has exactly one response, and never more than one, whatever
\* the trip date is relative to today.
C29_ExactlyOneResponse ==
    /\ [](Len(wres) <= 1)
    /\ (Supplied ~> (Len(wres) = 1))

\* The weather of the trip that is displayed
WeatherOfShown ==
    [city |-> submitted.city, country |-> submitted.country, date |-> submitted.tripDate]

\* C26: while a generated trip is displayed, the submitted country, city,
\* type and date are those of the request that produced the trip, and the
\* weather data displayed, if any, was fetched for those submitted values,
\* in whatever order the plan and weather responses arrive.
C26_ShownMatchesRequest ==
    pageTripData # Null =>
        /\ submitted = planBody
        /\ weatherData # Null => weatherData = WeatherOfShown

\* The server confirmed the save of the trip that is displayed
ShownIsConfirmed ==
    \E body \in confirmed :
        /\ body.tripData = pageTripData
        /\ body.country = submitted.country
        /\ body.city = submitted.city
        /\ body.tripType = submitted.tripType
        /\ body.tripDate = submitted.tripDate

\* C30: while a trip is displayed and tripSaved is true, the displayed trip
\* is one whose save the server confirmed, also when a new submission
\* overlaps a save that is still in flight.
C30_SavedIsConfirmed ==
    (tripSaved /\ pageTripData # Null) => ShownIsConfirmed

\* What the oracle measured for the segments recorded in days
RECURSIVE Measured(_)
Measured(days) ==
    IF days = <<>> THEN {}
    ELSE {Head(days).orsSegments[k].distance : k \in 1..Len(Head(days).orsSegments)}
            \cup Measured(Tail(days))

\* The distances the oracle may give to a request of the trip type
AnswersFor(tripType) ==
    {answer.summary.distance : answer \in Given.oracle[Profile(tripType)]}

\* The state of request f rests on the replies and answers f was given
OwnReplies(f) ==
    /\ f.pc \in {"GroqRequest", "Requesting"} => f.attempt = f.groqCalls
    /\ f.pc \in {"Respond", "done"} /\ ~f.foundValid => f.attempt = f.groqCalls
    /\ f.foundValid => f.attempt = f.groqCalls - 1
    /\ f.lastRawResponse = f.lastModelReply
    /\ f.pc \in {"Validate", "DayLoop", "OrsRequest", "OrsCall", "DayCheck"} =>
          f.tripData = ParseReply(f.lastModelReply).value
    /\ Measured(f.allORSData) \subseteq AnswersFor(f.request.tripType)
    /\ f.pc = "done" =>
          /\ f.foundValid => /\ f.res = Success(f.tripData)
                             /\ Measured(f.orsData) \subseteq AnswersFor(f.request.tripType)
                             /\ f.tripData.days[1].distances
                                   = <<FormatSegDistance(f.orsData[1].orsSegments[1])>>
          /\ ~f.foundValid => f.res = Exhausted(f.lastModelReply)

\* C21: two requests to POST /plan that are served together do not
\* interfere: under every interleaving, the attempt count, the last raw
\* response of the model and the itinerary returned for each request are
\* those that follow from the replies and answers given to that request.
C21_RequestsDoNotInterfere == OwnReplies(Frame) /\ OwnReplies(parked)

\* The bike request has been rejected twice and awaits the model again while
\* the trek request, between its own calls, has had a candidate measured
C21_Witness ==
    /\ pc = "Requesting" /\ request.tripType = "bike" /\ attempt = 2
    /\ parked.pc = "OrsCall" /\ parked.request.tripType = "trek"
    /\ parked.attempt = 1 /\ parked.parseFailures = 1

====
